---- MODULE Spec2Model ----
(***************************************************************************)
(* Ingestion-and-aggregation pipeline of the reports application:          *)
(*   - AdversusClient.getCallLogs / getLeads: the fetch-all page loop      *)
(*   - ReportGenerator: lead resolution loop, daily / agent / campaign     *)
(*     folds, conversion attribution                                       *)
(*   - the top-performer ranking of the report viewer and the PDF writer   *)
(***************************************************************************)
EXTENDS Integers, Sequences, FiniteSets, TLC

(***************************************************************************)
(* Bounds of the model.                                                    *)
(***************************************************************************)
MaxRecords == 5
MaxPageSize == 3
Max429 == 2
MaxSent == 10

(***************************************************************************)
(* Program constants.                                                      *)
(***************************************************************************)
CdrDelayMs == 1100
LeadsDelayMs == 500
LeadsFastDelayMs == 200
CooldownMs == 60000

Min(a, b) == IF a < b THEN a ELSE b
Max(a, b) == IF a > b THEN a ELSE b

Upto(n) == [i \in 1..n |-> i]

SeqRange(q) == {q[i] : i \in DOMAIN q}

(***************************************************************************)
(* State of one fetch-all invocation (getCallLogs or getLeads with         *)
(* fetchAll !== false) and of the server it talks to.                      *)
(***************************************************************************)
VARIABLES
    resource,       \* "cdr" (getCallLogs), "leads" or "leadsFast" (getLeads, fastMode)
    pageSize,       \* params.limit || default: the requested page size
    srvTotal,       \* number of records the server holds
    srvPageSize,    \* number of records the server puts on a full page
    srvMeta,        \* TRUE iff the response carries meta.pagination
    srvPageCount,   \* meta.pagination.pageCount as reported by the server
    srvEndless,     \* TRUE iff the server answers every page number with a full page
    currentPage,
    hasMorePages,
    allCdrs,        \* allCdrs / allLeads: the accumulated records
    fpc,            \* position of the loop: "top", "delay", "get", "cooldown", "done"
    requests,       \* the GET requests issued, in order: page and delays awaited before
    waits,          \* delays (ms) awaited since the last GET was issued
    n429,           \* number of 429 answers received
    answers,        \* the answers received, in order: "ok", "429" or "error"
    failedAt        \* page whose request failed with a non-429 error, or 0

fetchVars == <<resource, pageSize, srvTotal, srvPageSize, srvMeta, srvPageCount, srvEndless,
               currentPage, hasMorePages, allCdrs, fpc, requests, waits, n429,
               answers, failedAt>>

srvVars == <<resource, pageSize, srvTotal, srvPageSize, srvMeta, srvPageCount, srvEndless>>

(***************************************************************************)
(* State of one report computation (ReportGenerator.generateReport) and    *)
(* of the data the upstream API holds for it.                              *)
(***************************************************************************)
VARIABLES
    reportType,        \* "call-summary", "agent-performance", "campaign-analytics"
    startDate,         \* new Date(startDate): an instant
    endDate,           \* new Date(endDate): an instant
    tzOffset,          \* offset of the server's local time zone, in ticks
    usersArray,        \* ids of the agents returned by getAgents
    campaignsArray,    \* ids of the campaigns returned by getCampaigns
    cdrArray,          \* the calls returned by getCalls
    leadPages,         \* the lead collection of the server, page by page
    rpc,               \* "start", "fetching", "resolving", "done", "failed"
    filteredCdrArray,  \* allCalls / filteredCdrArray: the in-range calls
    uniqueLeadIds,
    remainingLeadIds,
    leadsArray,        \* the leads resolved so far, in page order
    leadPage,          \* currentPage of the lead resolution loop
    leadRequests,      \* page numbers of the single-page getLeads requests issued
    report,            \* the ReportData returned, or NoReport
    failure,           \* the upstream request whose rejection reached generateReport
    srvCalls           \* the call collection of the server

inputVars == <<reportType, startDate, endDate, tzOffset, usersArray, campaignsArray,
               cdrArray, leadPages, srvCalls>>

reportVars == <<inputVars, rpc, filteredCdrArray, uniqueLeadIds, remainingLeadIds,
                leadsArray, leadPage, leadRequests, report, failure>>

(***************************************************************************)
(* State of the two renderings of an agent-performance report: the agent   *)
(* table of the report viewer and the top performers of the PDF.           *)
(*   data        the data of the agent-performance report to render        *)
(*   agentTable  the rows of the table, [agentId, rank], once rendered     *)
(*   topAgents   the rows of the PDF's top performers, once rendered       *)
(*   rendered    which of "table", "pdf" have been rendered                *)
(***************************************************************************)
VARIABLES data, agentTable, topAgents, rendered

viewVars == <<data, agentTable, topAgents, rendered>>

(***************************************************************************)
(* State of the report cache (ReportCache, one map per process) and of its *)
(* callers. Times are in seconds.                                          *)
(***************************************************************************)
VARIABLES
    cache,          \* this.cache: key |-> [data, timestamp, expiresAt]
    now,            \* Date.now()
    seq,            \* number of cache and route steps taken so far
    computed,       \* number of payloads produced so far; a payload is its number
    lastGet,        \* the last get(tuple) made through the cache API and its answer
    lastSet,        \* per key: what the last set was passed and stored, until invalidate or clear
    tupleChoices,   \* the (reportType, startDate, endDate) tuples the callers pass
    opsLeft         \* cache API calls still to be made

cacheVars == <<cache, now, seq, computed, lastGet, lastSet, tupleChoices, opsLeft>>

(***************************************************************************)
(* State of the requests handled by the generate route and the export      *)
(* route.                                                                  *)
(***************************************************************************)
VARIABLES
    routeReqs,      \* the requests received so far, in order of arrival
    clears          \* the steps (seq) at which the cache was cleared

routeVars == <<routeReqs, clears>>

vars == <<fetchVars, reportVars, viewVars, cacheVars, routeVars>>

(***************************************************************************)
(* The server: record i of the collection is the number i; page p holds    *)
(* the records (p-1)*S+1 .. p*S that exist.                                *)
(***************************************************************************)
CeilDiv(n, s) == (n + s - 1) \div s

SrvPageLen(p) ==
    IF srvEndless THEN srvPageSize
    ELSE Max(0, Min(srvPageSize, srvTotal - (p - 1) * srvPageSize))

SrvPage(p) == [i \in 1..SrvPageLen(p) |-> (p - 1) * srvPageSize + i]

SrvPages == CeilDiv(srvTotal, srvPageSize)

(***************************************************************************)
(* delay(...) before a request: only when currentPage > 1.                 *)
(***************************************************************************)
PageDelayMs ==
    CASE resource = "cdr" -> CdrDelayMs
      [] resource = "leads" -> LeadsDelayMs
      [] resource = "leadsFast" -> LeadsFastDelayMs

NeedsDelay == currentPage > 1

(***************************************************************************)
(* The body of the try block after the response arrived: what the loop    *)
(* does with a page of length len.                                         *)
(***************************************************************************)
AppendsPage(len) == len > 0

\* a check of the metadata that would also stop on a short page
LastPageByMetaOrShort(page) ==
    srvMeta /\ (page >= srvPageCount \/ SrvPageLen(page) < pageSize)

LastPageByMeta(page) == srvMeta /\ page >= srvPageCount

LastPageByLength(len) == ~srvMeta /\ len < pageSize

StopsAfterPastCount(page, len) ==
    len = 0 \/ (srvMeta /\ page > srvPageCount) \/ LastPageByLength(len)

\* a loop that gives up after its second page
StopsAfterPageCap(page, len) ==
    len = 0 \/ LastPageByMeta(page) \/ LastPageByLength(len) \/ page >= 2

StopsAfter(page, len) == len = 0 \/ LastPageByMeta(page) \/ LastPageByLength(len)

(***************************************************************************)
(* Loop head: while (hasMorePages) { ... await delay / await this.get }.   *)
(***************************************************************************)
SendRequest(waited) ==
    /\ Len(requests) < MaxSent
    /\ requests' = Append(requests, [page |-> currentPage, waited |-> waited])
    /\ waits' = <<>>
    /\ fpc' = "get"

LoopReturn ==
    /\ fpc = "top"
    /\ ~hasMorePages
    /\ fpc' = "done"
    /\ UNCHANGED <<reportVars, viewVars, cacheVars, routeVars, srvVars, currentPage, hasMorePages, allCdrs, requests,
                   waits,
                   n429, answers, failedAt>>

\* a loop that would send the request before awaiting the delay, and again after
LoopDelayPrefetches ==
    /\ fpc = "top"
    /\ hasMorePages
    /\ NeedsDelay
    /\ Len(requests) < MaxSent
    /\ requests' = Append(requests, [page |-> currentPage, waited |-> waits])
    /\ fpc' = "delay"
    /\ UNCHANGED <<reportVars, viewVars, cacheVars, routeVars, srvVars, currentPage, hasMorePages, allCdrs,
                   waits, n429, answers, failedAt>>

LoopDelay ==
    /\ fpc = "top"
    /\ hasMorePages
    /\ NeedsDelay
    /\ fpc' = "delay"
    /\ UNCHANGED <<reportVars, viewVars, cacheVars, routeVars, srvVars, currentPage, hasMorePages, allCdrs, requests,
                   waits,
                   n429, answers, failedAt>>

LoopGetFirst ==
    /\ fpc = "top"
    /\ hasMorePages
    /\ ~NeedsDelay
    /\ SendRequest(waits)
    /\ UNCHANGED <<reportVars, viewVars, cacheVars, routeVars, srvVars, currentPage, hasMorePages, allCdrs, n429,
                   answers, failedAt>>

DelayDone ==
    /\ fpc = "delay"
    /\ SendRequest(Append(waits, PageDelayMs))
    /\ UNCHANGED <<reportVars, viewVars, cacheVars, routeVars, srvVars, currentPage, hasMorePages, allCdrs, n429,
                   answers, failedAt>>

(***************************************************************************)
(* The three possible answers to the outstanding GET.                      *)
(***************************************************************************)
ResponseOk ==
    /\ fpc = "get"
    /\ LET len == SrvPageLen(currentPage) IN
        /\ allCdrs' = IF AppendsPage(len) THEN allCdrs \o SrvPage(currentPage)
                                           ELSE allCdrs
        /\ hasMorePages' = ~StopsAfter(currentPage, len)
        /\ currentPage' = IF StopsAfter(currentPage, len) THEN currentPage
                                                          ELSE currentPage + 1
    /\ answers' = Append(answers, "ok")
    /\ fpc' = "top"
    /\ UNCHANGED <<reportVars, viewVars, cacheVars, routeVars, srvVars, requests, waits, n429, failedAt>>

Response429Advances ==
    /\ fpc = "get"
    /\ n429 < Max429
    /\ n429' = n429 + 1
    /\ answers' = Append(answers, "429")
    /\ currentPage' = currentPage + 1
    /\ fpc' = "cooldown"
    /\ UNCHANGED <<reportVars, viewVars, cacheVars, routeVars, srvVars, hasMorePages, allCdrs, requests, waits,
                   failedAt>>

Response429 ==
    /\ fpc = "get"
    /\ n429 < Max429
    /\ n429' = n429 + 1
    /\ answers' = Append(answers, "429")
    /\ fpc' = "cooldown"
    /\ UNCHANGED <<reportVars, viewVars, cacheVars, routeVars, srvVars, currentPage, hasMorePages, allCdrs, requests,
                   waits,
                   failedAt>>

CooldownDone ==
    /\ fpc = "cooldown"
    /\ fpc' = "top"
    /\ waits' = Append(waits, CooldownMs)
    /\ UNCHANGED <<reportVars, viewVars, cacheVars, routeVars, srvVars, currentPage, hasMorePages, allCdrs, requests,
                   n429,
                   answers, failedAt>>

ResponseErrorSkipsPage ==
    /\ fpc = "get"
    /\ failedAt = 0
    /\ failedAt' = currentPage
    /\ answers' = Append(answers, "error")
    /\ currentPage' = currentPage + 1
    /\ fpc' = "top"
    /\ UNCHANGED <<reportVars, viewVars, cacheVars, routeVars, srvVars, hasMorePages, allCdrs, requests, waits, n429>>

\* a catch that would rethrow to generateReport
ResponseErrorRejects ==
    /\ fpc = "get"
    /\ failedAt' = currentPage
    /\ answers' = Append(answers, "error")
    /\ hasMorePages' = FALSE
    /\ fpc' = "idle"
    /\ rpc' = "failed"
    /\ failure' = [request |-> "calls", status |-> 500]
    /\ UNCHANGED <<inputVars, filteredCdrArray, uniqueLeadIds, remainingLeadIds, leadsArray,
                   leadPage, leadRequests, report, viewVars, cacheVars, routeVars, srvVars,
                   currentPage, allCdrs, requests, waits, n429>>

ResponseError ==
    /\ fpc = "get"
    /\ failedAt' = currentPage
    /\ answers' = Append(answers, "error")
    /\ hasMorePages' = FALSE
    /\ fpc' = "top"
    /\ UNCHANGED <<reportVars, viewVars, cacheVars, routeVars, srvVars, currentPage, allCdrs, requests, waits, n429>>

InitFetch ==
    /\ resource \in {"cdr", "leads", "leadsFast"}
    /\ srvTotal \in 0..MaxRecords
    /\ srvPageSize \in 1..MaxPageSize
    /\ pageSize \in srvPageSize..MaxPageSize
    /\ srvMeta \in BOOLEAN
    /\ srvPageCount \in IF srvMeta THEN {SrvPages, SrvPages + 1} ELSE {0}
    /\ srvEndless = FALSE
    /\ currentPage = 1
    /\ hasMorePages = TRUE
    /\ allCdrs = <<>>
    /\ fpc = "top"
    /\ requests = <<>>
    /\ waits = <<>>
    /\ n429 = 0
    /\ answers = <<>>
    /\ failedAt = 0

\* a server that has a full page of the requested size for every page number
\* and sends no metadata
InitFetchEndless ==
    /\ resource \in {"cdr", "leads", "leadsFast"}
    /\ srvTotal = 0
    /\ srvPageSize \in 1..MaxPageSize
    /\ pageSize = srvPageSize
    /\ srvMeta = FALSE
    /\ srvPageCount = 0
    /\ srvEndless = TRUE
    /\ currentPage = 1
    /\ hasMorePages = TRUE
    /\ allCdrs = <<>>
    /\ fpc = "top"
    /\ requests = <<>>
    /\ waits = <<>>
    /\ n429 = 0
    /\ answers = <<>>
    /\ failedAt = 0

NextFetch ==
    \/ LoopReturn
    \/ LoopDelay
    \/ LoopGetFirst
    \/ DelayDone
    \/ ResponseOk
    \/ Response429
    \/ CooldownDone
    \/ ResponseError

(***************************************************************************)
(* ReportGenerator: data shapes.                                           *)
(***************************************************************************)
\* a missing (undefined) field of a record of the API
None == -1

NoReport == [reportType |-> "none"]

TicksPerDay == 2

MkCall(u, c, l, ty, d, t) ==
    [userId |-> u, campaignId |-> c, leadId |-> l, type |-> ty, disposition |-> d,
     startTime |-> t, durationSeconds |-> None, conversationSeconds |-> None]

MkLead(i, st, t, c) == [id |-> i, status |-> st, lastModifiedTime |-> t, campaignId |-> c]

\* parseInt(x) || 0
ParseIntOr0(x) == IF x = None THEN 0 ELSE x

\* callDate >= startDateObj && callDate <= endDateObj (false for an invalid date)
InRange(t) == t # None /\ t >= startDate /\ t <= endDate

\* format(date, 'yyyy-MM-dd') in the server's time zone: the local calendar day
DayOf(t) == (t + tzOffset) \div TicksPerDay

\* cdrArray.filter(c => inRange)
FilterCalls(calls) == SelectSeq(calls, LAMBDA c : InRange(c.startTime))

\* if (call.leadId) uniqueLeadIds.add(call.leadId.toString())
HasLead(c) == c.leadId # None /\ c.leadId # 0

LeadIdsOf(calls) == {calls[i].leadId : i \in {j \in DOMAIN calls : HasLead(calls[j])}}

(***************************************************************************)
(* Lead resolution loop: getLeads({fetchAll: false, limit, offset}) asks   *)
(* for page floor(offset / pageSize) + 1 = currentPage.                    *)
(***************************************************************************)
LeadPageAt(p) == IF p \in DOMAIN leadPages THEN leadPages[p] ELSE <<>>

\* a forEach that would test every lead of the page against the ids
\* outstanding before the page
ProcessPageTakesAll(pageLeads, remaining, found) ==
    LET hits == SelectSeq(pageLeads, LAMBDA lead : lead.id # None /\ lead.id \in remaining)
    IN [remaining |-> remaining \ {hits[i].id : i \in DOMAIN hits},
        found |-> found \o hits]

\* pageLeads.forEach: a lead whose id is outstanding is kept and its id removed
RECURSIVE ProcessPage(_, _, _)
ProcessPage(pageLeads, remaining, found) ==
    IF pageLeads = <<>> THEN [remaining |-> remaining, found |-> found]
    ELSE LET lead == Head(pageLeads) IN
         IF lead.id # None /\ lead.id \in remaining
         THEN ProcessPage(Tail(pageLeads), remaining \ {lead.id}, Append(found, lead))
         ELSE ProcessPage(Tail(pageLeads), remaining, found)

(***************************************************************************)
(* Small helpers for counting, rounding and ordering.                     *)
(***************************************************************************)
CountIf(q, Test(_)) == Len(SelectSeq(q, Test))

\* (num / den * 100).toFixed(2), in hundredths of a percent; 0 when den = 0
RatePct(num, den) == IF den > 0 THEN (2 * num * 10000 + den) \div (2 * den) ELSE 0

\* (sum / n).toFixed(2), in hundredths; 0 when n = 0
AvgHundredths(sum, n) == IF n > 0 THEN (2 * sum * 100 + n) \div (2 * n) ELSE 0

SetMin(S) == CHOOSE x \in S : \A y \in S : x <= y

\* Object.values / Object.keys of an object with integer keys: ascending keys
RECURSIVE KeysAscending(_)
KeysAscending(S) ==
    IF S = {} THEN <<>> ELSE <<SetMin(S)>> \o KeysAscending(S \ {SetMin(S)})

\* Array.prototype.sort is stable: insert r behind every row that does not
\* sort after it
RECURSIVE InsertByTotalCallsDesc(_, _)
InsertByTotalCallsDesc(sorted, r) ==
    IF sorted = <<>> THEN <<r>>
    ELSE IF Head(sorted).totalCalls >= r.totalCalls
         THEN <<Head(sorted)>> \o InsertByTotalCallsDesc(Tail(sorted), r)
         ELSE <<r>> \o sorted

\* rows.sort((a, b) => b.totalCalls - a.totalCalls)
RECURSIVE SortByTotalCallsDesc(_)
SortByTotalCallsDesc(rows) ==
    IF rows = <<>> THEN <<>>
    ELSE InsertByTotalCallsDesc(SortByTotalCallsDesc(SubSeq(rows, 1, Len(rows) - 1)),
                                rows[Len(rows)])

(***************************************************************************)
(* generateCallSummaryReport: daily buckets.                               *)
(***************************************************************************)
\* a seed that would start a day with an answered call already counted
ZeroDayOneAnswered(d) ==
    [date |-> d, total |-> 0, inbound |-> 0, outbound |-> 0, answered |-> 1,
     noAnswer |-> 0, inboundAnswered |-> 0, inboundNoAnswer |-> 0,
     outboundAnswered |-> 0, outboundNoAnswer |-> 0, duration |-> 0,
     conversationTime |-> 0, inboundDuration |-> 0, inboundConversationTime |-> 0,
     outboundDuration |-> 0, outboundConversationTime |-> 0]

ZeroDay(d) ==
    [date |-> d, total |-> 0, inbound |-> 0, outbound |-> 0, answered |-> 0,
     noAnswer |-> 0, inboundAnswered |-> 0, inboundNoAnswer |-> 0,
     outboundAnswered |-> 0, outboundNoAnswer |-> 0, duration |-> 0,
     conversationTime |-> 0, inboundDuration |-> 0, inboundConversationTime |-> 0,
     outboundDuration |-> 0, outboundConversationTime |-> 0]

\* eachDayOfInterval({start: startOfDay(startDateObj), end: endOfDay(endDateObj)})
\* throws a RangeError when the start lies after the end
IntervalInvalid == DayOf(startDate) > DayOf(endDate)

\* an interval that would leave out the day of endDate
AllDatesBeforeEnd == DayOf(startDate)..(DayOf(endDate) - 1)

AllDatesInRange == DayOf(startDate)..DayOf(endDate)

SeedDays == [d \in AllDatesInRange |-> ZeroDay(d)]

\* cdr.disposition || 'unknown'
DispositionOf(cdr) == IF cdr.disposition = "" THEN "unknown" ELSE cdr.disposition

\* the daily fold looks the bucket up without a guard: a missing bucket is a TypeError
DailyFoldThrows(calls) ==
    \E i \in DOMAIN calls : DayOf(calls[i].startTime) \notin AllDatesInRange

DailyStep(cbd, cdr) ==
    LET date == DayOf(cdr.startTime)
        disposition == DispositionOf(cdr)
        dur == ParseIntOr0(cdr.durationSeconds)
        conv == ParseIntOr0(cdr.conversationSeconds)
        b1 == [cbd[date] EXCEPT !.total = @ + 1]
        b2 == CASE cdr.type = "inbound" ->
                     [b1 EXCEPT !.inbound = @ + 1,
                                !.inboundDuration = @ + dur,
                                !.inboundConversationTime = @ + conv,
                                !.inboundAnswered =
                                    IF disposition = "answered" THEN @ + 1 ELSE @,
                                !.inboundNoAnswer =
                                    IF disposition = "answered" THEN @ ELSE @ + 1]
                [] cdr.type = "outbound" ->
                     [b1 EXCEPT !.outbound = @ + 1,
                                !.outboundDuration = @ + dur,
                                !.outboundConversationTime = @ + conv,
                                !.outboundAnswered =
                                    IF disposition = "answered" THEN @ + 1 ELSE @,
                                !.outboundNoAnswer =
                                    IF disposition = "answered" THEN @ ELSE @ + 1]
                [] OTHER -> b1
        b3 == [b2 EXCEPT !.answered = IF disposition = "answered" THEN @ + 1 ELSE @,
                         !.noAnswer = IF disposition = "answered" THEN @ ELSE @ + 1,
                         !.duration = @ + dur,
                         !.conversationTime = @ + conv]
    IN [cbd EXCEPT ![date] = b3]

RECURSIVE FoldDaily(_, _)
FoldDaily(cbd, calls) ==
    IF calls = <<>> THEN cbd ELSE FoldDaily(DailyStep(cbd, Head(calls)), Tail(calls))

\* insertion of one bucket into the buckets already ordered: a.date.localeCompare(b.date)
RECURSIVE InsertByDate(_, _)
InsertByDate(sorted, b) ==
    IF sorted = <<>> THEN <<b>>
    ELSE IF Head(sorted).date <= b.date
         THEN <<Head(sorted)>> \o InsertByDate(Tail(sorted), b)
         ELSE <<b>> \o sorted

RECURSIVE SortByDate(_)
SortByDate(buckets) ==
    IF buckets = <<>> THEN <<>>
    ELSE InsertByDate(SortByDate(SubSeq(buckets, 1, Len(buckets) - 1)),
                      buckets[Len(buckets)])

\* Object.values(callsByDate).sort(...)
DailyStats(cbd) ==
    LET keys == KeysAscending(DOMAIN cbd)
    IN SortByDate([i \in 1..Len(keys) |-> cbd[keys[i]]])

\* calls.reduce((sum, c) => sum + (parseInt(c.durationSeconds) || 0), 0)
RECURSIVE SumDuration(_)
SumDuration(calls) ==
    IF calls = <<>> THEN 0
    ELSE ParseIntOr0(Head(calls).durationSeconds) + SumDuration(Tail(calls))

RECURSIVE SumConversation(_)
SumConversation(calls) ==
    IF calls = <<>> THEN 0
    ELSE ParseIntOr0(Head(calls).conversationSeconds) + SumConversation(Tail(calls))

\* leadStatusBreakdown: number of resolved leads per status (lead.status || 'unknown')
StatusOf(lead) == IF lead.status = "" THEN "unknown" ELSE lead.status

LeadStatusBreakdown(leads) ==
    LET statuses == {StatusOf(leads[i]) : i \in DOMAIN leads}
    IN [st \in statuses |-> CountIf(leads, LAMBDA l : StatusOf(l) = st)]

\* leadStatusBreakdownArray.reduce((sum, item) => sum + item.count, 0)
RECURSIVE SumCounts(_, _)
SumCounts(breakdown, statuses) ==
    IF statuses = {} THEN 0
    ELSE LET st == CHOOSE x \in statuses : TRUE
         IN breakdown[st] + SumCounts(breakdown, statuses \ {st})

CallSummarySummary(calls, leads) ==
    LET totalCalls == Len(calls)
        answeredCalls == CountIf(calls, LAMBDA c : c.disposition = "answered")
        totalDuration == SumDuration(calls)
        totalConversationTime == SumConversation(calls)
        breakdown == LeadStatusBreakdown(leads)
    IN [totalCalls |-> totalCalls,
        inboundCalls |-> CountIf(calls, LAMBDA c : c.type = "inbound"),
        outboundCalls |-> CountIf(calls, LAMBDA c : c.type = "outbound"),
        answeredCalls |-> answeredCalls,
        noAnswerCalls |-> CountIf(calls, LAMBDA c : c.disposition = "noAnswer"),
        busyCalls |-> CountIf(calls, LAMBDA c : c.disposition = "busy"),
        congestionCalls |-> CountIf(calls, LAMBDA c : c.disposition = "congestion"),
        totalDuration |-> totalDuration,
        totalConversationTime |-> totalConversationTime,
        avgDuration |-> AvgHundredths(totalDuration, totalCalls),
        avgConversationTime |-> AvgHundredths(totalConversationTime, totalCalls),
        answerRate |-> RatePct(answeredCalls, totalCalls),
        totalLeads |-> SumCounts(breakdown, DOMAIN breakdown)]

CallSummaryReport(calls, leads) ==
    [reportType |-> "call-summary",
     data |-> [dailyStats |-> DailyStats(FoldDaily(SeedDays, calls)),
               leadStatusBreakdown |-> LeadStatusBreakdown(leads)],
     summary |-> CallSummarySummary(calls, leads)]

(***************************************************************************)
(* generateAgentPerformanceReport: agent rows.                             *)
(***************************************************************************)
ZeroAgent(id) ==
    [agentId |-> id, totalCalls |-> 0, inboundCalls |-> 0, outboundCalls |-> 0,
     answeredCalls |-> 0, completedCalls |-> 0, missedCalls |-> 0,
     totalDuration |-> 0, totalConversationTime |-> 0, totalTalkTime |-> 0,
     avgDuration |-> 0, avgConversationTime |-> 0, avgTalkTime |-> 0,
     answerRate |-> 0, completionRate |-> 0,
     totalLeads |-> 0, convertedLeads |-> 0, conversionRate |-> 0]

\* one row per fetched user, plus agentStats[0] for the system calls
SeedAgents == [a \in usersArray \cup {0} |-> ZeroAgent(a)]

\* a fold that would count a call twice
AgentStepCountsTwice(stats, cdr) ==
    LET agentId == ParseIntOr0(cdr.userId)
    IN IF agentId \notin DOMAIN stats THEN stats
       ELSE [stats EXCEPT ![agentId] = [@ EXCEPT !.totalCalls = @ + 2]]

AgentStep(stats, cdr) ==
    LET agentId == ParseIntOr0(cdr.userId)
        conv == ParseIntOr0(cdr.conversationSeconds)
    IN IF agentId \notin DOMAIN stats THEN stats
       ELSE [stats EXCEPT ![agentId] =
               [@ EXCEPT !.totalCalls = @ + 1,
                         !.totalDuration = @ + ParseIntOr0(cdr.durationSeconds),
                         !.totalConversationTime = @ + conv,
                         !.totalTalkTime = @ + conv,
                         !.inboundCalls = IF cdr.type = "inbound" THEN @ + 1 ELSE @,
                         !.outboundCalls = IF cdr.type = "outbound" THEN @ + 1 ELSE @,
                         !.answeredCalls =
                             IF cdr.disposition = "answered" THEN @ + 1 ELSE @,
                         !.completedCalls =
                             IF cdr.disposition = "answered" THEN @ + 1 ELSE @,
                         !.missedCalls =
                             IF cdr.disposition = "answered" THEN @ ELSE @ + 1]]

RECURSIVE FoldAgents(_, _)
FoldAgents(stats, calls) ==
    IF calls = <<>> THEN stats ELSE FoldAgents(AgentStep(stats, Head(calls)), Tail(calls))

\* a filter that would let the leads without lastModifiedTime through
FilterLeadsKeepsUndated(leads) ==
    SelectSeq(leads, LAMBDA l : l.lastModifiedTime = None \/ InRange(l.lastModifiedTime))

\* leads.filter: lastModifiedTime present and inside [startDate, endDate]
FilterLeads(leads) == SelectSeq(leads, LAMBDA l : InRange(l.lastModifiedTime))

\* an attribution that would credit the lead to one of its callers only
AgentsWhoCalledFirst(calls, leadId) ==
    LET js == {j \in DOMAIN calls : HasLead(calls[j]) /\ calls[j].leadId = leadId}
    IN IF js = {} THEN {} ELSE {ParseIntOr0(calls[SetMin(js)].userId)}

\* leadToAgentsMap.get(leadId): the agents of the in-range calls that reference the lead
AgentsWhoCalled(calls, leadId) ==
    {ParseIntOr0(calls[i].userId) :
        i \in {j \in DOMAIN calls : HasLead(calls[j]) /\ calls[j].leadId = leadId}}

\* an attribution that would credit the lead to every row
AgentLeadStepCreditsAll(stats, lead, calls) ==
    IF lead.id = None THEN stats
    ELSE [a \in DOMAIN stats |->
            [stats[a] EXCEPT
               !.totalLeads = @ + 1,
               !.convertedLeads = IF lead.status = "success" THEN @ + 1 ELSE @]]

AgentLeadStep(stats, lead, calls) ==
    IF lead.id = None THEN stats
    ELSE LET agentsWhoCalled == AgentsWhoCalled(calls, lead.id)
         IN [a \in DOMAIN stats |->
               IF a \in agentsWhoCalled
               THEN [stats[a] EXCEPT
                       !.totalLeads = @ + 1,
                       !.convertedLeads = IF lead.status = "success" THEN @ + 1 ELSE @]
               ELSE stats[a]]

RECURSIVE FoldAgentLeads(_, _, _)
FoldAgentLeads(stats, leads, calls) ==
    IF leads = <<>> THEN stats
    ELSE FoldAgentLeads(AgentLeadStep(stats, Head(leads), calls), Tail(leads), calls)

\* averages and rates of one row; conversionRate is convertedLeads per call
DeriveAgent(r) ==
    [r EXCEPT !.avgDuration = AvgHundredths(r.totalDuration, r.totalCalls),
              !.avgConversationTime = AvgHundredths(r.totalConversationTime, r.totalCalls),
              !.avgTalkTime = AvgHundredths(r.totalConversationTime, r.totalCalls),
              !.answerRate = RatePct(r.answeredCalls, r.totalCalls),
              !.completionRate = RatePct(r.answeredCalls, r.totalCalls),
              !.conversionRate = RatePct(r.convertedLeads, r.totalCalls)]

AgentStats(calls, leads) ==
    LET folded == FoldAgentLeads(FoldAgents(SeedAgents, calls), FilterLeads(leads), calls)
    IN [a \in DOMAIN folded |-> DeriveAgent(folded[a])]

\* Object.values(stats).sort((a, b) => b.totalCalls - a.totalCalls)
RowsByTotalCalls(stats) ==
    LET keys == KeysAscending(DOMAIN stats)
    IN SortByTotalCallsDesc([i \in 1..Len(keys) |-> stats[keys[i]]])

AgentPerformanceReport(calls, leads) ==
    LET agentPerformance == RowsByTotalCalls(AgentStats(calls, leads))
        filteredLeads == FilterLeads(leads)
    IN [reportType |-> "agent-performance",
        data |-> [agentPerformance |-> agentPerformance],
        summary |->
          [totalAgents |-> Len(agentPerformance),
           activeAgents |-> CountIf(agentPerformance, LAMBDA a : a.totalCalls > 0),
           totalCalls |-> Len(calls),
           totalLeads |-> Len(filteredLeads),
           totalConvertedLeads |->
               CountIf(filteredLeads, LAMBDA l : l.status = "success")]]

(***************************************************************************)
(* generateCampaignAnalyticsReport: campaign rows.                         *)
(***************************************************************************)
ZeroCampaign(id) ==
    [campaignId |-> id, totalCalls |-> 0, inboundCalls |-> 0, outboundCalls |-> 0,
     answeredCalls |-> 0, completedCalls |-> 0, missedCalls |-> 0, busyCalls |-> 0,
     congestionCalls |-> 0, totalDuration |-> 0, totalConversationTime |-> 0,
     totalTalkTime |-> 0, avgDuration |-> 0, avgConversationTime |-> 0,
     avgTalkTime |-> 0, answerRate |-> 0, completionRate |-> 0,
     totalLeads |-> 0, convertedLeads |-> 0, conversionRate |-> 0]

SeedCampaigns == [c \in campaignsArray \cup {0} |-> ZeroCampaign(c)]

CampaignStep(stats, cdr) ==
    LET campaignId == ParseIntOr0(cdr.campaignId)
        conv == ParseIntOr0(cdr.conversationSeconds)
        disposition == DispositionOf(cdr)
    IN IF campaignId \notin DOMAIN stats THEN stats
       ELSE [stats EXCEPT ![campaignId] =
               [@ EXCEPT !.totalCalls = @ + 1,
                         !.totalDuration = @ + ParseIntOr0(cdr.durationSeconds),
                         !.totalConversationTime = @ + conv,
                         !.totalTalkTime = @ + conv,
                         !.inboundCalls = IF cdr.type = "inbound" THEN @ + 1 ELSE @,
                         !.outboundCalls = IF cdr.type = "outbound" THEN @ + 1 ELSE @,
                         !.answeredCalls = IF disposition = "answered" THEN @ + 1 ELSE @,
                         !.completedCalls = IF disposition = "answered" THEN @ + 1 ELSE @,
                         !.missedCalls = IF disposition = "noAnswer" THEN @ + 1 ELSE @,
                         !.busyCalls = IF disposition = "busy" THEN @ + 1 ELSE @,
                         !.congestionCalls =
                             IF disposition = "congestion" THEN @ + 1 ELSE @]]

RECURSIVE FoldCampaigns(_, _)
FoldCampaigns(stats, calls) ==
    IF calls = <<>> THEN stats
    ELSE FoldCampaigns(CampaignStep(stats, Head(calls)), Tail(calls))

\* the lead fold of the campaign report is keyed by the lead's own campaignId
CampaignLeadStep(stats, lead) ==
    LET campaignId == ParseIntOr0(lead.campaignId)
    IN IF campaignId \notin DOMAIN stats THEN stats
       ELSE [stats EXCEPT ![campaignId] =
               [@ EXCEPT !.totalLeads = @ + 1,
                         !.convertedLeads =
                             IF lead.status = "success" THEN @ + 1 ELSE @]]

RECURSIVE FoldCampaignLeads(_, _)
FoldCampaignLeads(stats, leads) ==
    IF leads = <<>> THEN stats
    ELSE FoldCampaignLeads(CampaignLeadStep(stats, Head(leads)), Tail(leads))

\* conversionRate of a campaign is convertedLeads per lead
DeriveCampaign(r) ==
    [r EXCEPT !.avgDuration = AvgHundredths(r.totalDuration, r.totalCalls),
              !.avgConversationTime = AvgHundredths(r.totalConversationTime, r.totalCalls),
              !.avgTalkTime = AvgHundredths(r.totalConversationTime, r.totalCalls),
              !.answerRate = RatePct(r.answeredCalls, r.totalCalls),
              !.completionRate = RatePct(r.answeredCalls, r.totalCalls),
              !.conversionRate = RatePct(r.convertedLeads, r.totalLeads)]

CampaignStats(calls, leads) ==
    LET folded == FoldCampaignLeads(FoldCampaigns(SeedCampaigns, calls), FilterLeads(leads))
    IN [c \in DOMAIN folded |-> DeriveCampaign(folded[c])]

CampaignAnalyticsReport(calls, leads) ==
    LET campaignAnalytics == RowsByTotalCalls(CampaignStats(calls, leads))
        filteredLeadsArray == FilterLeads(leads)
    IN [reportType |-> "campaign-analytics",
        data |-> [campaignAnalytics |-> campaignAnalytics],
        summary |->
          [totalCampaigns |-> Len(campaignAnalytics),
           totalCalls |-> Len(calls),
           totalAnsweredCalls |-> CountIf(calls, LAMBDA c : c.disposition = "answered"),
           totalDuration |-> SumDuration(calls),
           totalLeads |-> Len(filteredLeadsArray),
           totalConvertedLeads |->
               CountIf(filteredLeadsArray, LAMBDA l : l.status = "success")]]

(***************************************************************************)
(* generateReport: the report computation, one action per stretch of code  *)
(* between two awaits.                                                     *)
(***************************************************************************)
ReportTypes == {"call-summary", "agent-performance", "campaign-analytics"}

\* the statuses of a rejected request: too many requests, any other error
HttpErrors == {429, 500}

NoUpstreamFailure == [request |-> "none", status |-> 0]

ResolverPageSize == 10000

\* getLeads({fetchAll: false, limit, offset}):
\* page = offset ? Math.floor(offset / pageSize) + 1 : 1
RequestedLeadPage(cp) ==
    LET offset == (cp - 1) * ResolverPageSize
    IN IF offset = 0 THEN 1 ELSE (offset \div ResolverPageSize) + 1

ReportThrows(calls) ==
    reportType = "call-summary" /\ (IntervalInvalid \/ DailyFoldThrows(calls))

BuildReport(calls, leads) ==
    CASE reportType = "call-summary" -> CallSummaryReport(calls, leads)
      [] reportType = "agent-performance" -> AgentPerformanceReport(calls, leads)
      [] reportType = "campaign-analytics" -> CampaignAnalyticsReport(calls, leads)

\* the code after the lead resolution loop, up to return (or throw)
Finish(calls, leads) ==
    IF ReportThrows(calls)
    THEN rpc' = "failed" /\ report' = NoReport
    ELSE rpc' = "done" /\ report' = BuildReport(calls, leads)

\* switch (reportType) default: throw new Error('Unknown report type')
RejectReportType ==
    /\ rpc = "start"
    /\ reportType \notin ReportTypes
    /\ rpc' = "failed"
    /\ UNCHANGED <<fetchVars, viewVars, cacheVars, routeVars, inputVars, failure, filteredCdrArray, uniqueLeadIds,
                   remainingLeadIds,
                   leadsArray, leadPage, leadRequests, report>>

\* getCalls (and getAgents / getCampaigns) are issued and awaited
StartReport ==
    /\ rpc = "start"
    /\ reportType \in ReportTypes
    /\ rpc' = "fetching"
    /\ UNCHANGED <<fetchVars, viewVars, cacheVars, routeVars, inputVars, failure, filteredCdrArray, uniqueLeadIds,
                   remainingLeadIds,
                   leadsArray, leadPage, leadRequests, report>>

\* getAgents / getCampaigns rejects: Promise.all rejects, the report throws
FetchFails ==
    /\ rpc = "fetching"
    /\ reportType # "call-summary"
    /\ rpc' = "failed"
    /\ \E status \in HttpErrors :
           failure' = [request |-> IF reportType = "agent-performance" THEN "users"
                                                                       ELSE "campaigns",
                       status |-> status]
    /\ UNCHANGED <<fetchVars, viewVars, cacheVars, routeVars, inputVars, filteredCdrArray, uniqueLeadIds,
                   remainingLeadIds,
                   leadsArray, leadPage, leadRequests, report>>

\* the calls arrive and no in-range call references a lead: no lead page is requested
CallsArriveNoLeads ==
    /\ rpc = "fetching"
    /\ LET calls == FilterCalls(cdrArray) IN
        /\ LeadIdsOf(calls) = {}
        /\ filteredCdrArray' = calls
        /\ uniqueLeadIds' = {}
        /\ Finish(calls, <<>>)
    /\ UNCHANGED <<fetchVars, viewVars, cacheVars, routeVars, inputVars, failure, remainingLeadIds, leadsArray, leadPage,
                   leadRequests>>

\* the calls arrive; the lead resolution loop starts and requests its first page
CallsArriveWithLeads ==
    /\ rpc = "fetching"
    /\ LET calls == FilterCalls(cdrArray) IN
        /\ LeadIdsOf(calls) # {}
        /\ filteredCdrArray' = calls
        /\ uniqueLeadIds' = LeadIdsOf(calls)
        /\ remainingLeadIds' = LeadIdsOf(calls)
    /\ leadsArray' = <<>>
    /\ leadPage' = 1
    /\ leadRequests' = <<RequestedLeadPage(1)>>
    /\ rpc' = "resolving"
    /\ UNCHANGED <<fetchVars, viewVars, cacheVars, routeVars, inputVars, failure, report>>

\* pageLeads.length === 0: break
LeadPageEmpty ==
    /\ rpc = "resolving"
    /\ LeadPageAt(RequestedLeadPage(leadPage)) = <<>>
    /\ Finish(filteredCdrArray, leadsArray)
    /\ UNCHANGED <<fetchVars, viewVars, cacheVars, routeVars, inputVars, failure, filteredCdrArray, uniqueLeadIds,
                   remainingLeadIds,
                   leadsArray, leadPage, leadRequests>>

\* (mutant) the loop does not stop when nothing is outstanding
LeadPageCompletesLate ==
    /\ rpc = "resolving"
    /\ LET pageLeads == LeadPageAt(RequestedLeadPage(leadPage))
           r == ProcessPage(pageLeads, remainingLeadIds, leadsArray) IN
        /\ pageLeads # <<>>
        /\ r.remaining = {}
        /\ remainingLeadIds' = r.remaining
        /\ leadsArray' = r.found
    /\ leadPage' = leadPage + 1
    /\ leadRequests' = Append(leadRequests, RequestedLeadPage(leadPage + 1))
    /\ UNCHANGED <<fetchVars, viewVars, cacheVars, routeVars, inputVars, failure, rpc, filteredCdrArray, uniqueLeadIds, report>>

\* the page is processed and remainingLeadIds.size === 0: break
LeadPageCompletes ==
    /\ rpc = "resolving"
    /\ LET pageLeads == LeadPageAt(RequestedLeadPage(leadPage))
           r == ProcessPage(pageLeads, remainingLeadIds, leadsArray) IN
        /\ pageLeads # <<>>
        /\ r.remaining = {}
        /\ remainingLeadIds' = r.remaining
        /\ leadsArray' = r.found
        /\ Finish(filteredCdrArray, r.found)
    /\ UNCHANGED <<fetchVars, viewVars, cacheVars, routeVars, inputVars, failure, filteredCdrArray, uniqueLeadIds, leadPage,
                   leadRequests>>

\* the page is processed, ids are outstanding: currentPage++ and the next request
LeadPageContinues ==
    /\ rpc = "resolving"
    /\ LET pageLeads == LeadPageAt(RequestedLeadPage(leadPage))
           r == ProcessPage(pageLeads, remainingLeadIds, leadsArray) IN
        /\ pageLeads # <<>>
        /\ r.remaining # {}
        /\ remainingLeadIds' = r.remaining
        /\ leadsArray' = r.found
    /\ leadPage' = leadPage + 1
    /\ leadRequests' = Append(leadRequests, RequestedLeadPage(leadPage + 1))
    /\ UNCHANGED <<fetchVars, viewVars, cacheVars, routeVars, inputVars, failure, rpc, filteredCdrArray, uniqueLeadIds, report>>

\* the single-page getLeads rejects (any HTTP error): nothing catches it
\* before generateReport's caller
LeadPageFails ==
    /\ rpc = "resolving"
    /\ rpc' = "failed"
    /\ \E status \in HttpErrors : failure' = [request |-> "leads", status |-> status]
    /\ UNCHANGED <<fetchVars, viewVars, cacheVars, routeVars, inputVars, filteredCdrArray, uniqueLeadIds,
                   remainingLeadIds,
                   leadsArray, leadPage, leadRequests, report>>

NextReport ==
    \/ RejectReportType
    \/ StartReport
    \/ FetchFails
    \/ CallsArriveNoLeads
    \/ CallsArriveWithLeads
    \/ LeadPageEmpty
    \/ LeadPageCompletes
    \/ LeadPageContinues
    \/ LeadPageFails

(***************************************************************************)
(* generateReport together with the fetch-all loop of getCalls: the calls  *)
(* the generator works on are the records the loop has accumulated.        *)
(***************************************************************************)
\* record number i of the fetch-all loop is call i of the server
CallsOfRecords(records) == [i \in DOMAIN records |-> srvCalls[records[i]]]

\* this.client.getCalls({ startDate, endDate, limit }) enters getCallLogs
GetCallsStarts ==
    /\ rpc = "start"
    /\ reportType \in ReportTypes
    /\ fpc = "idle"
    /\ rpc' = "calls"
    /\ fpc' = "top"
    /\ UNCHANGED <<viewVars, cacheVars, routeVars, inputVars, failure, filteredCdrArray,
                   uniqueLeadIds, remainingLeadIds, leadsArray, leadPage, leadRequests,
                   report, srvVars, currentPage, hasMorePages, allCdrs, requests, waits,
                   n429, answers, failedAt>>

\* return { cdr: allCdrs }: cdrArray = cdrResponse.cdr
GetCallsReturns ==
    /\ rpc = "calls"
    /\ fpc = "done"
    /\ cdrArray' = CallsOfRecords(allCdrs)
    /\ rpc' = "fetching"
    /\ fpc' = "idle"
    /\ UNCHANGED <<viewVars, cacheVars, routeVars, reportType, startDate, endDate, tzOffset,
                   usersArray, campaignsArray, leadPages, srvCalls, failure,
                   filteredCdrArray, uniqueLeadIds, remainingLeadIds, leadsArray, leadPage,
                   leadRequests, report, srvVars, currentPage, hasMorePages, allCdrs,
                   requests, waits, n429, answers, failedAt>>

NextGenerate ==
    \/ RejectReportType
    \/ GetCallsStarts
    \/ LoopReturn
    \/ LoopDelay
    \/ LoopGetFirst
    \/ DelayDone
    \/ ResponseOk
    \/ Response429
    \/ CooldownDone
    \/ ResponseError
    \/ GetCallsReturns
    \/ FetchFails
    \/ CallsArriveNoLeads
    \/ CallsArriveWithLeads
    \/ LeadPageEmpty
    \/ LeadPageCompletes
    \/ LeadPageContinues
    \/ LeadPageFails

(***************************************************************************)
(* The top-performer ranking, computed alike by the report viewer for the  *)
(* Rank column of the agent table and by the PDF generator.                *)
(***************************************************************************)
MinRankedCalls == 5

TopAgentsShown == 5

\* a.totalCalls >= 5 && a.convertedLeads > 0 && a.agentId !== 0
Eligible(a) == a.totalCalls >= MinRankedCalls /\ a.convertedLeads > 0 /\ a.agentId # 0

\* a comparator that would prefer the agent with more calls on a tie
RanksBeforeMoreCalls(a, b) ==
    IF a.conversionRate # b.conversionRate
    THEN a.conversionRate > b.conversionRate
    ELSE a.totalCalls > b.totalCalls

\* the comparator: a goes before b (parseFloat of the two-decimal rate is the
\* rate in hundredths)
RanksBefore(a, b) ==
    IF a.conversionRate # b.conversionRate
    THEN a.conversionRate > b.conversionRate
    ELSE a.totalCalls < b.totalCalls

\* Array.prototype.sort is stable: a row goes behind the rows it does not precede
RECURSIVE InsertByEfficiency(_, _)
InsertByEfficiency(sorted, r) ==
    IF sorted = <<>> THEN <<r>>
    ELSE IF RanksBefore(r, Head(sorted))
         THEN <<r>> \o sorted
         ELSE <<Head(sorted)>> \o InsertByEfficiency(Tail(sorted), r)

RECURSIVE SortByEfficiency(_)
SortByEfficiency(rows) ==
    IF rows = <<>> THEN <<>>
    ELSE InsertByEfficiency(SortByEfficiency(SubSeq(rows, 1, Len(rows) - 1)),
                            rows[Len(rows)])

\* agentPerformance.filter(...).sort(...)
SortedByEfficiency(rows) == SortByEfficiency(SelectSeq(rows, Eligible))

\* sortedByEfficiency.findIndex(a => a.agentId === agent.agentId) + 1
FindIndex(rows, id) ==
    LET hits == {i \in DOMAIN rows : rows[i].agentId = id}
    IN IF hits = {} THEN 0 ELSE SetMin(hits)

RankOf(agent, rows) ==
    IF Eligible(agent) THEN FindIndex(SortedByEfficiency(rows), agent.agentId) ELSE None

NoData == [agentPerformance |-> <<>>]

NotRendered == agentTable = <<>> /\ topAgents = <<>> /\ rendered = {}

\* nothing is rendered while the fetch loop or the generator is studied
NoView == data = NoData /\ NotRendered

\* ReportViewer: one row per agent of the report, with its rank
RenderAgentTable ==
    /\ data # NoData
    /\ "table" \notin rendered
    /\ agentTable' = [i \in DOMAIN data.agentPerformance |->
                        [agentId |-> data.agentPerformance[i].agentId,
                         rank |-> RankOf(data.agentPerformance[i], data.agentPerformance)]]
    /\ rendered' = rendered \cup {"table"}
    /\ UNCHANGED <<fetchVars, reportVars, cacheVars, routeVars, data, topAgents>>

\* ServerPDFGenerator: the first five of the ranking
RenderTopPerformers ==
    /\ data # NoData
    /\ "pdf" \notin rendered
    /\ topAgents' = LET sorted == SortedByEfficiency(data.agentPerformance)
                    IN SubSeq(sorted, 1, Min(TopAgentsShown, Len(sorted)))
    /\ rendered' = rendered \cup {"pdf"}
    /\ UNCHANGED <<fetchVars, reportVars, cacheVars, routeVars, data, agentTable>>

NextRank == RenderAgentTable \/ RenderTopPerformers

(***************************************************************************)
(* ReportCache. A string is the sequence of its characters; a tuple is     *)
(* <<reportType, startDate, endDate>>.                                     *)
(***************************************************************************)
DefaultTTL == 1800

\* `${reportType}:${startDate}:${endDate}`
GenerateKey(tu) == tu[1] \o <<":">> \o tu[2] \o <<":">> \o tu[3]

\* ttl || this.defaultTTL
TtlOrDefault(ttl) == IF ttl = None \/ ttl = 0 THEN DefaultTTL ELSE ttl

\* an expiry test that would already evict at expiresAt
ExpiredAtDeadline(entry, t) == t >= entry.expiresAt

\* now > entry.expiresAt
Expired(entry, t) == t > entry.expiresAt

Absent == None

NoEntry == [data |-> Absent, expiresAt |-> 0, tuple |-> <<>>, ttl |-> None, at |-> 0]

CacheDelete(c, key) == [k \in DOMAIN c \ {key} |-> c[k]]

CachePut(c, key, entry) == [k \in DOMAIN c \cup {key} |-> IF k = key THEN entry ELSE c[k]]

\* a sweep that would drop every entry
CleanupDropsAll(c, t) == [k \in {} |-> c[k]]

\* cleanup(): delete every expired entry
Cleanup(c, t) == [k \in {x \in DOMAIN c : ~Expired(c[x], t)} |-> c[k]]

\* set(reportType, startDate, endDate, data, ttl), cleanup included
AfterSet(c, tu, payload, ttl, t) ==
    Cleanup(CachePut(c, GenerateKey(tu),
                     [data |-> payload, timestamp |-> t,
                      expiresAt |-> t + TtlOrDefault(ttl)]), t)

\* a get that would never find an entry
GetFindsNothing(c, tu, t) == Absent

\* get(reportType, startDate, endDate): the value returned
GetResult(c, tu, t) ==
    IF GenerateKey(tu) \notin DOMAIN c THEN Absent
    ELSE IF Expired(c[GenerateKey(tu)], t) THEN Absent
    ELSE c[GenerateKey(tu)].data

\* get(...): the map it leaves
AfterGet(c, tu, t) ==
    IF GenerateKey(tu) \in DOMAIN c /\ Expired(c[GenerateKey(tu)], t)
    THEN CacheDelete(c, GenerateKey(tu))
    ELSE c

NoGet == [tuple |-> <<>>, at |-> 0, result |-> Absent, expected |-> NoEntry,
          stillCached |-> FALSE]

\* reportCache.set(t, s, e, data, ttl) with a fresh payload
CacheSet ==
    \E tu \in tupleChoices, ttl \in {None, 0, 1} :
        /\ opsLeft > 0
        /\ opsLeft' = opsLeft - 1
        /\ computed' = computed + 1
        /\ seq' = seq + 1
        /\ cache' = AfterSet(cache, tu, computed + 1, ttl, now)
        /\ lastSet' = [lastSet EXCEPT ![GenerateKey(tu)] =
                           [data |-> computed + 1,
                            expiresAt |-> now + TtlOrDefault(ttl), tuple |-> tu,
                            ttl |-> ttl, at |-> now]]
        /\ UNCHANGED <<fetchVars, reportVars, viewVars, routeVars, now, lastGet,
                       tupleChoices>>

\* reportCache.get(t, s, e)
CacheGet ==
    \E tu \in tupleChoices :
        /\ opsLeft > 0
        /\ opsLeft' = opsLeft - 1
        /\ seq' = seq + 1
        /\ cache' = AfterGet(cache, tu, now)
        /\ lastGet' = [tuple |-> tu, at |-> now, result |-> GetResult(cache, tu, now),
                       expected |-> lastSet[GenerateKey(tu)],
                       stillCached |-> GenerateKey(tu) \in DOMAIN cache']
        /\ UNCHANGED <<fetchVars, reportVars, viewVars, routeVars, now, computed,
                       lastSet, tupleChoices>>

\* reportCache.invalidate(t, s, e)
CacheInvalidate ==
    \E tu \in tupleChoices :
        /\ opsLeft > 0
        /\ opsLeft' = opsLeft - 1
        /\ seq' = seq + 1
        /\ cache' = CacheDelete(cache, GenerateKey(tu))
        /\ lastSet' = [lastSet EXCEPT ![GenerateKey(tu)] = NoEntry]
        /\ UNCHANGED <<fetchVars, reportVars, viewVars, routeVars, now, computed,
                       lastGet, tupleChoices>>

\* reportCache.clear(): DELETE /api/reports/cache
CacheClear ==
    /\ opsLeft > 0
    /\ opsLeft' = opsLeft - 1
    /\ seq' = seq + 1
    /\ cache' = <<>>
    /\ lastSet' = [k \in DOMAIN lastSet |-> NoEntry]
    /\ clears' = clears \cup {seq + 1}
    /\ UNCHANGED <<fetchVars, reportVars, viewVars, routeReqs, now, computed, lastGet,
                   tupleChoices>>

\* setInterval(() => reportCache.cleanup(), 5 * 60 * 1000)
CacheCleanupTimer ==
    /\ opsLeft > 0
    /\ opsLeft' = opsLeft - 1
    /\ seq' = seq + 1
    /\ cache' = Cleanup(cache, now)
    /\ UNCHANGED <<fetchVars, reportVars, viewVars, routeVars, now, computed, lastGet,
                   lastSet, tupleChoices>>

MaxTicks == 2
MaxCacheOps == 3

\* the clock steps taken to reach time t
TicksUsed(t) == (t \div DefaultTTL) + (t % DefaultTTL)

\* time passes: a second, or the default time to live
ClockTick ==
    \E d \in {1, DefaultTTL} :
        /\ TicksUsed(now) < MaxTicks
        /\ now' = now + d
        /\ UNCHANGED <<fetchVars, reportVars, viewVars, routeVars, cache, seq, computed,
                       lastGet, lastSet, tupleChoices, opsLeft>>

NextCache ==
    \/ CacheSet
    \/ CacheGet
    \/ CacheInvalidate
    \/ CacheClear
    \/ CacheCleanupTimer
    \/ ClockTick

\* new Map(), no request received
EmptyCache ==
    /\ cache = <<>>
    /\ now = 0
    /\ seq = 0
    /\ computed = 0
    /\ lastGet = NoGet

NoCache ==
    /\ EmptyCache
    /\ lastSet = <<>>
    /\ tupleChoices = {}
    /\ opsLeft = 0

NoRoutes ==
    /\ routeReqs = <<>>
    /\ clears = {}

\* "2024-01-01", "2024-01-01T00:00" and ":..." stand for date strings without and
\* with the separator character of the key
DateStrings == {<<"d">>, <<"d", ":">>, <<":", "d">>}

TypeStrings == {<<"call-summary">>}

Tuples == {<<t, s, e>> : t \in TypeStrings, s \in DateStrings, e \in DateStrings}

FirstTuple == <<<<"call-summary">>, <<"d", ":">>, <<"d">>>>

\* the callers of the cache API use two tuples
InitCache ==
    /\ EmptyCache
    /\ tupleChoices \in {{FirstTuple, tu} : tu \in Tuples \ {FirstTuple}}
    /\ lastSet = [k \in {GenerateKey(tu) : tu \in tupleChoices} |-> NoEntry]
    /\ opsLeft = MaxCacheOps

(***************************************************************************)
(* The generate route and the PDF export routes. A request is handled in   *)
(* steps: the handler runs up to its first await of generateReport (or to  *)
(* its answer), generateReport resolves or rejects, the PDF is produced.   *)
(***************************************************************************)
MaxRequests == 2

\* !reportType, !startDate, !endDate
MissingParam(tu) == tu[1] = <<>> \/ tu[2] = <<>> \/ tu[3] = <<>>

\* the cases of the switch in generateReport
KnownReportType(tu) ==
    tu[1] \in {<<"call-summary">>, <<"agent-performance">>, <<"campaign-analytics">>}

\* the request bodies the routes receive
RouteTuples ==
    { <<<<"call-summary">>, <<"d">>, <<"d">>>>,
      <<<<"agent-performance">>, <<"d">>, <<"d">>>>,
      <<<<"bogus">>, <<"d">>, <<"d">>>>,
      <<<<>>, <<"d">>, <<"d">>>>,
      <<<<"call-summary">>, <<>>, <<"d">>>>,
      <<<<"call-summary">>, <<"d">>, <<>>>> }

Routes == {"generate", "export"}

NewRequest(route, tu) ==
    [route |-> route, tuple |-> tu, pc |-> "received", success |-> "pending",
     status |-> 0, payload |-> Absent, upstream |-> 0, hit |-> FALSE, sets |-> 0,
     startedAt |-> seq + 1, gotAt |-> 0, gotNow |-> 0, setAt |-> 0, expiresAt |-> 0,
     liveAtGet |-> FALSE, mapChanged |-> FALSE, created |-> FALSE]

\* the entry a set has stored under the key is neither cleared nor past expiresAt
LiveEntry(tu, t) ==
    /\ lastSet[GenerateKey(tu)].data # Absent
    /\ t <= lastSet[GenerateKey(tu)].expiresAt

RouteStep == /\ seq' = seq + 1
             /\ UNCHANGED <<fetchVars, reportVars, viewVars, now, lastGet, tupleChoices,
                            opsLeft, clears>>

\* status 400: 'Missing required parameters: reportType, startDate, endDate'
RouteRejectsMissing ==
    \E route \in Routes, tu \in tupleChoices :
        /\ Len(routeReqs) < MaxRequests
        /\ MissingParam(tu)
        /\ routeReqs' = Append(routeReqs,
               [NewRequest(route, tu) EXCEPT !.pc = "done", !.success = "false",
                                             !.status = 400])
        /\ RouteStep
        /\ UNCHANGED <<cache, computed, lastSet>>

\* generate route: always calls generator.generateReport
GenerateStarts ==
    \E tu \in tupleChoices :
        /\ Len(routeReqs) < MaxRequests
        /\ ~MissingParam(tu)
        /\ routeReqs' = Append(routeReqs,
               [NewRequest("generate", tu) EXCEPT !.pc = "computing"])
        /\ RouteStep
        /\ UNCHANGED <<cache, computed, lastSet>>

\* export route: reportCache.get returns the report, 'Using cached report data'
ExportHits ==
    \E tu \in tupleChoices :
        /\ Len(routeReqs) < MaxRequests
        /\ ~MissingParam(tu)
        /\ GetResult(cache, tu, now) # Absent
        /\ routeReqs' = Append(routeReqs,
               [NewRequest("export", tu) EXCEPT
                    !.pc = "rendering", !.hit = TRUE, !.gotAt = seq + 1, !.gotNow = now,
                    !.payload = GetResult(cache, tu, now),
                    !.liveAtGet = LiveEntry(tu, now),
                    !.mapChanged = (AfterGet(cache, tu, now) # cache)])
        /\ cache' = AfterGet(cache, tu, now)
        /\ RouteStep
        /\ UNCHANGED <<computed, lastSet>>

\* export route: 'Cache miss - generating report data'
ExportMisses ==
    \E tu \in tupleChoices :
        /\ Len(routeReqs) < MaxRequests
        /\ ~MissingParam(tu)
        /\ GetResult(cache, tu, now) = Absent
        /\ routeReqs' = Append(routeReqs,
               [NewRequest("export", tu) EXCEPT
                    !.pc = "computing", !.gotAt = seq + 1, !.gotNow = now,
                    !.liveAtGet = LiveEntry(tu, now),
                    !.mapChanged = (AfterGet(cache, tu, now) # cache)])
        /\ cache' = AfterGet(cache, tu, now)
        /\ RouteStep
        /\ UNCHANGED <<computed, lastSet>>

\* a generateReport that would fetch before it looks at the report type
ComputationRejectsTypeLate ==
    \E i \in DOMAIN routeReqs :
        /\ routeReqs[i].pc = "computing"
        /\ ~KnownReportType(routeReqs[i].tuple)
        /\ routeReqs' = [routeReqs EXCEPT ![i].pc = "done", ![i].success = "false",
                                          ![i].status = 500,
                                          ![i].upstream = @ + 1]
        /\ RouteStep
        /\ UNCHANGED <<cache, computed, lastSet>>

\* generateReport: default: throw new Error(`Unknown report type: ...`)
ComputationRejectsType ==
    \E i \in DOMAIN routeReqs :
        /\ routeReqs[i].pc = "computing"
        /\ ~KnownReportType(routeReqs[i].tuple)
        /\ routeReqs' = [routeReqs EXCEPT ![i].pc = "done", ![i].success = "false",
                                          ![i].status = 500]
        /\ RouteStep
        /\ UNCHANGED <<cache, computed, lastSet>>

\* a catch that would remember the failure in the cache
ComputationFailsStoresFailure ==
    \E i \in DOMAIN routeReqs :
        /\ routeReqs[i].pc = "computing"
        /\ KnownReportType(routeReqs[i].tuple)
        /\ cache' = AfterSet(cache, routeReqs[i].tuple, 0, None, now)
        /\ lastSet' = [lastSet EXCEPT ![GenerateKey(routeReqs[i].tuple)] =
                           [data |-> 0, expiresAt |-> now + TtlOrDefault(None),
                            tuple |-> routeReqs[i].tuple, ttl |-> None, at |-> now]]
        /\ routeReqs' = [routeReqs EXCEPT ![i].pc = "done", ![i].success = "false",
                                          ![i].status = 500,
                                          ![i].upstream = @ + 1,
                                          ![i].sets = @ + 1,
                                          ![i].setAt = seq + 1,
                                          ![i].mapChanged = TRUE,
                                          ![i].created = TRUE]
        /\ RouteStep
        /\ UNCHANGED computed

\* generateReport rejects after it has called the API; the catch answers 500
ComputationFails ==
    \E i \in DOMAIN routeReqs :
        /\ routeReqs[i].pc = "computing"
        /\ KnownReportType(routeReqs[i].tuple)
        /\ routeReqs' = [routeReqs EXCEPT ![i].pc = "done", ![i].success = "false",
                                          ![i].status = 500,
                                          ![i].upstream = @ + 1]
        /\ RouteStep
        /\ UNCHANGED <<cache, computed, lastSet>>

\* a route that would leave the first computation's entry in place
ComputationSucceedsKeepsFirst ==
    \E i \in DOMAIN routeReqs :
        LET r == routeReqs[i]
            keep == GetResult(cache, r.tuple, now) # Absent IN
        /\ r.pc = "computing"
        /\ KnownReportType(r.tuple)
        /\ computed' = computed + 1
        /\ cache' = IF keep THEN cache
                    ELSE AfterSet(cache, r.tuple, computed + 1, None, now)
        /\ lastSet' = IF keep THEN lastSet
                      ELSE [lastSet EXCEPT ![GenerateKey(r.tuple)] =
                               [data |-> computed + 1,
                                expiresAt |-> now + TtlOrDefault(None),
                                tuple |-> r.tuple, ttl |-> None, at |-> now]]
        /\ routeReqs' = [routeReqs EXCEPT
               ![i].pc = IF r.route = "generate" THEN "done" ELSE "rendering",
               ![i].success = IF r.route = "generate" THEN "true" ELSE "pending",
               ![i].status = IF r.route = "generate" THEN 200 ELSE 0,
               ![i].payload = computed + 1,
               ![i].upstream = @ + 1,
               ![i].sets = @ + 1,
               ![i].setAt = seq + 1,
               ![i].expiresAt = now + TtlOrDefault(None),
               ![i].mapChanged = TRUE,
               ![i].created = TRUE]
        /\ RouteStep

\* generateReport resolves: reportCache.set(reportType, startDate, endDate,
\* reportData); the generate route answers { success: true, data }
ComputationSucceeds ==
    \E i \in DOMAIN routeReqs :
        LET r == routeReqs[i] IN
        /\ r.pc = "computing"
        /\ KnownReportType(r.tuple)
        /\ computed' = computed + 1
        /\ cache' = AfterSet(cache, r.tuple, computed + 1, None, now)
        /\ lastSet' = [lastSet EXCEPT ![GenerateKey(r.tuple)] =
                           [data |-> computed + 1,
                            expiresAt |-> now + TtlOrDefault(None),
                            tuple |-> r.tuple, ttl |-> None, at |-> now]]
        /\ routeReqs' = [routeReqs EXCEPT
               ![i].pc = IF r.route = "generate" THEN "done" ELSE "rendering",
               ![i].success = IF r.route = "generate" THEN "true" ELSE "pending",
               ![i].status = IF r.route = "generate" THEN 200 ELSE 0,
               ![i].payload = computed + 1,
               ![i].upstream = @ + 1,
               ![i].sets = @ + 1,
               ![i].setAt = seq + 1,
               ![i].expiresAt = now + TtlOrDefault(None),
               ![i].mapChanged = TRUE,
               ![i].created = TRUE]
        /\ RouteStep

\* export route: the PDF is streamed, status 200
PdfSucceeds ==
    \E i \in DOMAIN routeReqs :
        /\ routeReqs[i].pc = "rendering"
        /\ routeReqs' = [routeReqs EXCEPT ![i].pc = "done", ![i].success = "true",
                                          ![i].status = 200]
        /\ RouteStep
        /\ UNCHANGED <<cache, computed, lastSet>>

\* export route: generatePDF or the stream fails; the catch answers 500
PdfFails ==
    \E i \in DOMAIN routeReqs :
        /\ routeReqs[i].pc = "rendering"
        /\ routeReqs' = [routeReqs EXCEPT ![i].pc = "done", ![i].success = "false",
                                          ![i].status = 500]
        /\ RouteStep
        /\ UNCHANGED <<cache, computed, lastSet>>

NextRoutes ==
    \/ RouteRejectsMissing
    \/ GenerateStarts
    \/ ExportHits
    \/ ExportMisses
    \/ ComputationRejectsType
    \/ ComputationFails
    \/ ComputationSucceeds
    \/ PdfSucceeds
    \/ PdfFails
    \/ CacheClear
    \/ CacheCleanupTimer
    \/ ClockTick

\* the process has just started: empty cache, no request; the admin route or
\* the cleanup timer acts once
InitRoutes ==
    /\ EmptyCache
    /\ NoRoutes
    /\ tupleChoices = RouteTuples
    /\ lastSet = [k \in {GenerateKey(tu) : tu \in tupleChoices} |-> NoEntry]
    /\ opsLeft = 1

(***************************************************************************)
(* Initial states: the request and the data the API holds.                 *)
(***************************************************************************)
MaxCalls == 2
MaxLeadPages == 2
MaxPageLeads == 2
MaxTime == 5

SeqsUpTo(S, n) == UNION {[1..k -> S] : k \in 0..n}

Times == 0..MaxTime

\* generateReport has been called and has not run yet
GeneratorLocals ==
    /\ rpc = "start"
    /\ filteredCdrArray = <<>>
    /\ uniqueLeadIds = {}
    /\ remainingLeadIds = {}
    /\ leadsArray = <<>>
    /\ leadPage = 1
    /\ leadRequests = <<>>
    /\ report = NoReport
    /\ failure = NoUpstreamFailure

\* getCalls returns the whole collection of the server
IdleReport ==
    /\ GeneratorLocals
    /\ srvCalls = cdrArray

\* no report is being computed while the fetch loop is studied on its own
NoReportRequest ==
    /\ reportType = "none"
    /\ startDate = 0
    /\ endDate = 0
    /\ tzOffset = 0
    /\ usersArray = {}
    /\ campaignsArray = {}
    /\ cdrArray = <<>>
    /\ leadPages = <<>>
    /\ IdleReport

\* no fetch-all loop is followed while a report computation is studied
NoFetch ==
    /\ resource = "cdr"
    /\ srvTotal = 0
    /\ srvPageSize = 1
    /\ pageSize = 1
    /\ srvMeta = FALSE
    /\ srvPageCount = 0
    /\ srvEndless = FALSE
    /\ currentPage = 1
    /\ hasMorePages = TRUE
    /\ allCdrs = <<>>
    /\ fpc = "idle"
    /\ requests = <<>>
    /\ waits = <<>>
    /\ n429 = 0
    /\ answers = <<>>
    /\ failedAt = 0

\* a few requests of every kind, so that every path of generateReport is taken
BaseCalls ==
    {<<>>,
     <<MkCall(7, 3, 1, "outbound", "answered", 2)>>,
     <<MkCall(7, 3, 1, "outbound", "answered", 2),
       MkCall(9, 3, 2, "inbound", "noAnswer", 3)>>}

BaseLeadPages ==
    {<<>>, << <<MkLead(1, "success", 2, 3)>>, <<MkLead(2, "new", 3, 3)>> >>}

InitBase ==
    /\ reportType \in ReportTypes \cup {"bogus"}
    /\ startDate = 2
    /\ endDate = 3
    /\ tzOffset = 0
    /\ usersArray = {7, 9}
    /\ campaignsArray = {3}
    /\ cdrArray \in BaseCalls
    /\ leadPages \in BaseLeadPages

(***************************************************************************)
(* A report computed through the fetch-all loop: the server holds a few    *)
(* calls and returns them one per page.                                    *)
(***************************************************************************)
ServedCalls ==
    {MkCall(7, 3, 1, "outbound", "answered", 2),
     MkCall(7, 3, None, "outbound", "busy", 2),
     MkCall(9, 3, 2, "inbound", "noAnswer", 3)}

InitGenerate ==
    /\ reportType \in ReportTypes \cup {"bogus"}
    /\ startDate = 2
    /\ endDate = 3
    /\ tzOffset = 0
    /\ usersArray = {7, 9}
    /\ campaignsArray = {3}
    /\ srvCalls \in SeqsUpTo(ServedCalls, MaxCalls)
    /\ cdrArray = <<>>
    /\ leadPages \in BaseLeadPages
    /\ GeneratorLocals
    /\ resource = "cdr"
    /\ srvTotal = Len(srvCalls)
    /\ srvPageSize = 1
    /\ pageSize = 1
    /\ srvMeta \in BOOLEAN
    /\ srvPageCount = IF srvMeta THEN SrvPages ELSE 0
    /\ srvEndless = FALSE
    /\ currentPage = 1
    /\ hasMorePages = TRUE
    /\ allCdrs = <<>>
    /\ fpc = "idle"
    /\ requests = <<>>
    /\ waits = <<>>
    /\ n429 = 0
    /\ answers = <<>>
    /\ failedAt = 0

InitSpecGenerate == InitGenerate /\ NoView /\ NoCache /\ NoRoutes

SpecGenerate == InitSpecGenerate /\ [][NextGenerate]_vars

(***************************************************************************)
(* Lead resolution: the ids requested and the lead pages vary.             *)
(***************************************************************************)
LeadIds == {1, 2, 3}

RequestableIds == {1, 2}

\* one in-range call per requested lead id
CallsFor(K) ==
    LET ids == KeysAscending(K)
    IN [i \in 1..Len(ids) |-> MkCall(7, 3, ids[i], "outbound", "answered", 2)]

ResolveLeadPages ==
    SeqsUpTo(SeqsUpTo({MkLead(i, "new", 2, 3) : i \in LeadIds}, MaxPageLeads),
             MaxLeadPages)

\* pages on which lead 1 occurs in two versions, any number of times
RepeatedLeadPages ==
    SeqsUpTo(SeqsUpTo({MkLead(1, "new", 2, 3), MkLead(1, "success", 3, 3),
                       MkLead(2, "new", 2, 3)}, MaxPageLeads),
             MaxLeadPages)

InitResolve ==
    \/ InitBase
    \/ /\ reportType = "agent-performance"
       /\ startDate = 2
       /\ endDate = 3
       /\ tzOffset = 0
       /\ usersArray = {7}
       /\ campaignsArray = {3}
       /\ cdrArray = CallsFor(RequestableIds)
       /\ leadPages \in RepeatedLeadPages
    \/ /\ reportType = "agent-performance"
       /\ startDate = 2
       /\ endDate = 3
       /\ tzOffset = 0
       /\ usersArray = {7}
       /\ campaignsArray = {3}
       /\ cdrArray \in {CallsFor(K) : K \in SUBSET RequestableIds}
       /\ leadPages \in ResolveLeadPages

InitSpecResolve == InitResolve /\ IdleReport /\ NoFetch /\ NoView /\ NoCache /\ NoRoutes

SpecResolve == InitSpecResolve /\ [][NextReport]_vars

(***************************************************************************)
(* Counters: the dispositions, agents and campaigns of the calls vary.     *)
(***************************************************************************)
KnownDispositions == {"answered", "noAnswer", "busy", "congestion"}

\* "failed" stands for any value outside the vocabulary, "" for a missing field
Dispositions == KnownDispositions \cup {"failed", ""}

CounterCalls ==
    {MkCall(who[1], who[2], None, ty, d, t) :
        who \in {<<7, 3>>, <<None, None>>}, ty \in {"inbound", "outbound"},
        d \in Dispositions, t \in {0, 2}}

\* calls whose direction is neither inbound nor outbound, or is missing
DirectionCalls ==
    {MkCall(7, 3, None, ty, d, 2) :
        ty \in {"internal", ""}, d \in {"answered", "busy", "failed"}}

\* calls of fetched agents and campaigns (7, 3), of none, and of an agent and
\* a campaign that were not fetched (5, 4)
StrayCalls ==
    {MkCall(u, c, None, "outbound", "answered", t) :
        u \in {7, 5, None}, c \in {3, 4, None}, t \in {0, 2}}

InitCounters ==
    \/ InitBase
    \/ /\ reportType \in ReportTypes
       /\ startDate = 2
       /\ endDate = 3
       /\ tzOffset = 0
       /\ usersArray = {7, 9}
       /\ campaignsArray = {3}
       /\ cdrArray \in SeqsUpTo(StrayCalls, MaxCalls)
       /\ leadPages = <<>>
    \/ /\ reportType \in ReportTypes
       /\ startDate = 2
       /\ endDate = 3
       /\ tzOffset = 0
       /\ usersArray = {7, 9}
       /\ campaignsArray = {3}
       /\ cdrArray \in SeqsUpTo(DirectionCalls, MaxCalls)
       /\ leadPages = <<>>
    \/ /\ reportType \in ReportTypes
       /\ startDate = 2
       /\ endDate = 3
       /\ tzOffset = 0
       /\ usersArray = {7, 9}
       /\ campaignsArray = {3}
       /\ cdrArray \in SeqsUpTo(CounterCalls, MaxCalls)
       /\ leadPages = <<>>

InitSpecCounters == InitCounters /\ IdleReport /\ NoFetch /\ NoView /\ NoCache /\ NoRoutes

SpecCounters == InitSpecCounters /\ [][NextReport]_vars

(***************************************************************************)
(* Daily buckets: the date range, the time zone and the calls vary.        *)
(***************************************************************************)
RangeCalls ==
    {MkCall(7, 3, None, "outbound", "answered", t) : t \in Times \cup {None}}

FoldCalls ==
    {MkCall(7, 3, None, ty, d, t) :
        ty \in {"inbound", "outbound", "internal"}, d \in Dispositions, t \in {1, 2, 4}}

InitDaily ==
    \/ InitBase
    \/ /\ reportType = "call-summary"
       /\ startDate \in Times
       /\ endDate \in Times
       /\ tzOffset \in 0..(TicksPerDay - 1)
       /\ usersArray = {7}
       /\ campaignsArray = {3}
       /\ cdrArray \in SeqsUpTo(RangeCalls, MaxCalls)
       /\ leadPages = <<>>
    \/ /\ reportType = "call-summary"
       /\ startDate = 2
       /\ endDate = 5
       /\ tzOffset = 0
       /\ usersArray = {7}
       /\ campaignsArray = {3}
       /\ cdrArray \in SeqsUpTo(FoldCalls, MaxCalls)
       /\ leadPages = <<>>

InitSpecDaily == InitDaily /\ IdleReport /\ NoFetch /\ NoView /\ NoCache /\ NoRoutes

SpecDaily == InitSpecDaily /\ [][NextReport]_vars

(***************************************************************************)
(* Conversions: the callers, the leads and their modification times vary.  *)
(***************************************************************************)
\* agent 5 is not among the fetched users; userId None is a system call
ConvCalls ==
    {MkCall(u, 3, l, "outbound", "answered", t) :
        u \in {7, 9, 5, None}, l \in {None, 1, 2}, t \in {0, 2}}

LeadStates == {"success", "new"} \X {0, 2, None}

\* the leads of one page: lead 1 and lead 2, each present or not
ConvLeadPages(campaigns) ==
    LET ones == {<<>>} \cup {<<MkLead(1, x[1], x[2], c)>> : x \in LeadStates, c \in campaigns}
        twos == {<<>>} \cup {<<MkLead(2, "success", t, 3)>> : t \in {0, 2}}
    IN {IF p \o q = <<>> THEN <<>> ELSE <<p \o q>> : p \in ones, q \in twos}

CampaignCalls ==
    {MkCall(7, c, l, "outbound", "answered", t) :
        c \in {3, None}, l \in {None, 1}, t \in {0, 2}}

\* two pages that list lead 1 three times and lead 2 once
SharedLeadPages ==
    {<< <<MkLead(1, "success", 2, 3), MkLead(1, st, 2, 3)>>,
        <<MkLead(1, "success", 3, 3), MkLead(2, "success", 2, 3)>> >> :
        st \in {"success", "new"}}

InitConv ==
    \/ InitBase
    \/ /\ reportType = "agent-performance"
       /\ startDate = 2
       /\ endDate = 3
       /\ tzOffset = 0
       /\ usersArray = {7, 9}
       /\ campaignsArray = {3}
       /\ cdrArray \in SeqsUpTo(ConvCalls, MaxCalls)
       /\ leadPages \in SharedLeadPages
    \/ /\ reportType = "agent-performance"
       /\ startDate = 2
       /\ endDate = 3
       /\ tzOffset = 0
       /\ usersArray = {7, 9}
       /\ campaignsArray = {3}
       /\ cdrArray \in SeqsUpTo(ConvCalls, MaxCalls)
       /\ leadPages \in ConvLeadPages({3})
    \/ /\ reportType = "campaign-analytics"
       /\ startDate = 2
       /\ endDate = 3
       /\ tzOffset = 0
       /\ usersArray = {7}
       /\ campaignsArray = {3}
       /\ cdrArray \in SeqsUpTo(CampaignCalls, MaxCalls)
       /\ leadPages \in ConvLeadPages({3, 4, None})

InitSpecConv == InitConv /\ IdleReport /\ NoFetch /\ NoView /\ NoCache /\ NoRoutes

SpecConv == InitSpecConv /\ [][NextReport]_vars

(***************************************************************************)
(* Ranking: the rows of the report to render vary in the number of agents, *)
(* their calls and their conversions.                                      *)
(***************************************************************************)
MaxRichAgents == 3
MaxAgents == 6

Profile(n, k) == [calls |-> n, converted |-> k]

RichProfiles ==
    {Profile(0, 0), Profile(4, 4), Profile(5, 0), Profile(5, 1), Profile(10, 2),
     Profile(5, 2), Profile(6, 1)}

EligibleProfiles == {Profile(5, 1), Profile(10, 2), Profile(5, 2)}

\* the row the generator derives for agent a from p.calls answered calls
\* and p.converted converted leads
ProfileRow(a, p) ==
    DeriveAgent([ZeroAgent(a) EXCEPT !.totalCalls = p.calls,
                                     !.outboundCalls = p.calls,
                                     !.answeredCalls = p.calls,
                                     !.completedCalls = p.calls,
                                     !.totalLeads = p.converted,
                                     !.convertedLeads = p.converted])

\* the data of the report: the rows in the generator's order
RankData(assign) ==
    [agentPerformance |-> RowsByTotalCalls([a \in DOMAIN assign |-> ProfileRow(a, assign[a])])]

InitRank ==
    /\ NotRendered
    /\ \/ \E n \in 1..MaxRichAgents :
            \E sys \in {Profile(0, 0), Profile(10, 2)}, ps \in [1..n -> RichProfiles] :
               data = RankData([a \in 0..n |-> IF a = 0 THEN sys ELSE ps[a]])
       \/ \E ps \in [1..MaxAgents -> EligibleProfiles] :
            data = RankData([a \in 0..MaxAgents |-> IF a = 0 THEN Profile(10, 2) ELSE ps[a]])

InitSpecRank == InitRank /\ NoReportRequest /\ NoFetch /\ NoCache /\ NoRoutes

SpecRank == InitSpecRank /\ [][NextRank]_vars

(***************************************************************************)
(* Properties of the folds.                                                *)
(***************************************************************************)
InRangeCalls == FilterCalls(cdrArray)

IsKnown(c) == c.disposition \in KnownDispositions

CallsOfDay(d) == SelectSeq(InRangeCalls, LAMBDA c : DayOf(c.startTime) = d)

CallsOfAgent(a) == SelectSeq(InRangeCalls, LAMBDA c : ParseIntOr0(c.userId) = a)

CallsOfCampaign(k) == SelectSeq(InRangeCalls, LAMBDA c : ParseIntOr0(c.campaignId) = k)

Done(type) == rpc = "done" /\ reportType = type

\* C5: in every bucket the disposition sub-counts add up to the number of
\* calls of the bucket that have one of the four known dispositions (so to the
\* total when all have, and a call with an unknown or missing disposition is
\* in the total but in no sub-count): daily buckets, call-summary totals,
\* agent rows and campaign rows.
C5_CounterConservation ==
    /\ Done("call-summary") =>
         /\ \A i \in DOMAIN report.data.dailyStats :
              LET b == report.data.dailyStats[i] IN
                /\ b.total = Len(CallsOfDay(b.date))
                /\ b.answered + b.noAnswer = CountIf(CallsOfDay(b.date), IsKnown)
         /\ report.summary.totalCalls = Len(InRangeCalls)
         /\ report.summary.answeredCalls + report.summary.noAnswerCalls
              + report.summary.busyCalls + report.summary.congestionCalls
              = CountIf(InRangeCalls, IsKnown)
    /\ Done("agent-performance") =>
         \A i \in DOMAIN report.data.agentPerformance :
            LET r == report.data.agentPerformance[i] IN
              /\ r.totalCalls = Len(CallsOfAgent(r.agentId))
              /\ r.answeredCalls + r.missedCalls = CountIf(CallsOfAgent(r.agentId), IsKnown)
    /\ Done("campaign-analytics") =>
         \A i \in DOMAIN report.data.campaignAnalytics :
            LET r == report.data.campaignAnalytics[i] IN
              /\ r.totalCalls = Len(CallsOfCampaign(r.campaignId))
              /\ r.answeredCalls + r.missedCalls + r.busyCalls + r.congestionCalls
                   = CountIf(CallsOfCampaign(r.campaignId), IsKnown)

\* what does hold: the campaign rows and the call-summary totals keep the
\* four sub-counts apart and leave unknown dispositions out of all of them,
\* while a daily bucket and an agent row put every call that is not answered
\* into noAnswer / missedCalls
C5_AsImplemented ==
    /\ Done("call-summary") =>
         /\ \A i \in DOMAIN report.data.dailyStats :
              LET b == report.data.dailyStats[i] IN
                /\ b.total = Len(CallsOfDay(b.date))
                /\ b.answered + b.noAnswer = b.total
         /\ report.summary.answeredCalls + report.summary.noAnswerCalls
              + report.summary.busyCalls + report.summary.congestionCalls
              = CountIf(InRangeCalls, IsKnown)
    /\ Done("agent-performance") =>
         \A i \in DOMAIN report.data.agentPerformance :
            LET r == report.data.agentPerformance[i] IN
              r.answeredCalls + r.missedCalls = r.totalCalls
    /\ Done("campaign-analytics") =>
         \A i \in DOMAIN report.data.campaignAnalytics :
            LET r == report.data.campaignAnalytics[i] IN
              r.answeredCalls + r.missedCalls + r.busyCalls + r.congestionCalls
                 = CountIf(CallsOfCampaign(r.campaignId), IsKnown)

\* C6: for startDate <= endDate the call-summary report is produced and its
\* dailyStats hold exactly one bucket per calendar day (of the server's time
\* zone) from the day of startDate to the day of endDate, in ascending order,
\* a day without in-range calls having all counters zero.
C6_BucketCompleteness ==
    (reportType = "call-summary" /\ startDate <= endDate) =>
        /\ ~ReportThrows(InRangeCalls)
        /\ rpc = "done" =>
            LET dailyStats == report.data.dailyStats IN
              /\ Len(dailyStats) = DayOf(endDate) - DayOf(startDate) + 1
              /\ \A i \in DOMAIN dailyStats :
                   /\ dailyStats[i].date = DayOf(startDate) + i - 1
                   /\ CallsOfDay(dailyStats[i].date) = <<>> =>
                        dailyStats[i] = ZeroDay(dailyStats[i].date)

\* a range of three days with a call on the first day only
C6_Witness ==
    /\ Done("call-summary")
    /\ startDate <= endDate
    /\ Len(report.data.dailyStats) = 3
    /\ report.data.dailyStats[1].total = 1
    /\ report.data.dailyStats[2] = ZeroDay(DayOf(startDate) + 1)
    /\ report.data.dailyStats[3].total = 0

\* no call is fetched at all
C6_WitnessNoCalls ==
    /\ Done("call-summary")
    /\ cdrArray = <<>>
    /\ Len(report.data.dailyStats) = 2

\* C7: the bucket of day D counts the in-range calls started on D: total,
\* inbound / outbound by direction, answered, and noAnswer = the calls whose
\* disposition is noAnswer; the answer rate of the report is answered / total.
C7_DailyFold ==
    Done("call-summary") =>
        /\ \A i \in DOMAIN report.data.dailyStats :
             LET b == report.data.dailyStats[i]
                 calls == CallsOfDay(b.date) IN
               /\ b.total = Len(calls)
               /\ b.inbound = CountIf(calls, LAMBDA c : c.type = "inbound")
               /\ b.outbound = CountIf(calls, LAMBDA c : c.type = "outbound")
               /\ b.answered = CountIf(calls, LAMBDA c : c.disposition = "answered")
               /\ b.noAnswer = CountIf(calls, LAMBDA c : c.disposition = "noAnswer")
        /\ report.summary.answerRate =
             RatePct(CountIf(InRangeCalls, LAMBDA c : c.disposition = "answered"),
                     Len(InRangeCalls))

\* what does hold: noAnswer is the number of calls that are not answered
C7_AsImplemented ==
    Done("call-summary") =>
        /\ \A i \in DOMAIN report.data.dailyStats :
             LET b == report.data.dailyStats[i]
                 calls == CallsOfDay(b.date) IN
               /\ b.total = Len(calls)
               /\ b.inbound = CountIf(calls, LAMBDA c : c.type = "inbound")
               /\ b.outbound = CountIf(calls, LAMBDA c : c.type = "outbound")
               /\ b.answered = CountIf(calls, LAMBDA c : c.disposition = "answered")
               /\ b.noAnswer = CountIf(calls, LAMBDA c : c.disposition # "answered")
        /\ report.summary.answerRate =
             RatePct(CountIf(InRangeCalls, LAMBDA c : c.disposition = "answered"),
                     Len(InRangeCalls))

\* Scenario A: two outbound calls on one day, one answered and one noAnswer
C7_ScenarioA ==
    /\ Done("call-summary")
    /\ Len(InRangeCalls) = 2
    /\ \E i \in DOMAIN report.data.dailyStats :
         LET b == report.data.dailyStats[i] IN
           /\ b.total = 2 /\ b.outbound = 2 /\ b.answered = 1 /\ b.noAnswer = 1
           /\ \A j \in 1..2 : CallsOfDay(b.date)[j].disposition \in {"answered", "noAnswer"}
    /\ report.summary.answerRate = 5000

\* the resolved leads modified inside the window
InWindow(t) == t # None /\ startDate <= t /\ t <= endDate

WindowLeads == {i \in DOMAIN leadsArray : InWindow(leadsArray[i].lastModifiedTime)}

\* agent a placed an in-window call that references the lead
CalledBy(a, lead) ==
    \E j \in DOMAIN cdrArray :
        /\ InWindow(cdrArray[j].startTime)
        /\ HasLead(cdrArray[j])
        /\ cdrArray[j].leadId = lead.id
        /\ ParseIntOr0(cdrArray[j].userId) = a

Converted(S) == {i \in S : leadsArray[i].status = "success"}

\* C8: in the agent-performance report the totalLeads of a row is the number
\* of resolved leads modified inside the window that an in-window call of the
\* agent references (each lead once per agent, whatever the number of calls,
\* and for every agent that called it), and convertedLeads the number of those
\* whose status is 'success'.
C8_ConversionAttribution ==
    Done("agent-performance") =>
        \A i \in DOMAIN report.data.agentPerformance :
            LET r == report.data.agentPerformance[i]
                mine == {k \in WindowLeads : CalledBy(r.agentId, leadsArray[k])}
            IN /\ r.totalLeads = Cardinality(mine)
               /\ r.convertedLeads = Cardinality(Converted(mine))

\* one 'success' lead called by agents 7 and 9 counts as converted for both
C8_Witness ==
    /\ Done("agent-performance")
    /\ Len(leadsArray) = 1
    /\ report.summary.totalConvertedLeads = 1
    /\ \A i \in DOMAIN report.data.agentPerformance :
         LET r == report.data.agentPerformance[i] IN
           r.agentId \in {7, 9} => r.convertedLeads = 1 /\ r.totalLeads = 1

\* two calls of one agent to the same lead count the lead once
C8_WitnessTwoCalls ==
    /\ Done("agent-performance")
    /\ Len(InRangeCalls) = 2
    /\ InRangeCalls[1].userId = 7 /\ InRangeCalls[2].userId = 7
    /\ InRangeCalls[1].leadId = 1 /\ InRangeCalls[2].leadId = 1
    /\ \E i \in DOMAIN report.data.agentPerformance :
         LET r == report.data.agentPerformance[i] IN
           r.agentId = 7 /\ r.totalCalls = 2 /\ r.totalLeads = 1

\* C9: in the agent-performance and campaign-analytics reports only the leads
\* with startDate <= lastModifiedTime <= endDate are counted in a totalLeads
\* or convertedLeads counter, of a row or of the summary: the counters are
\* those of the in-window leads alone, so a lead with a missing or an
\* out-of-window lastModifiedTime adds to none, whenever its calls started.
C9_ConversionWindow ==
    /\ (Done("agent-performance") \/ Done("campaign-analytics")) =>
         /\ report.summary.totalLeads = Cardinality(WindowLeads)
         /\ report.summary.totalConvertedLeads = Cardinality(Converted(WindowLeads))
    /\ Done("agent-performance") =>
         \A i \in DOMAIN report.data.agentPerformance :
            LET r == report.data.agentPerformance[i]
                mine == {k \in WindowLeads : CalledBy(r.agentId, leadsArray[k])}
            IN /\ r.totalLeads = Cardinality(mine)
               /\ r.convertedLeads = Cardinality(Converted(mine))
    /\ Done("campaign-analytics") =>
         \A i \in DOMAIN report.data.campaignAnalytics :
            LET r == report.data.campaignAnalytics[i]
                mine == {k \in WindowLeads :
                            ParseIntOr0(leadsArray[k].campaignId) = r.campaignId}
            IN /\ r.totalLeads = Cardinality(mine)
               /\ r.convertedLeads = Cardinality(Converted(mine))

\* a 'success' lead modified before the window, its call inside the window
C9_Witness ==
    /\ Done("agent-performance")
    /\ Len(leadsArray) = 1
    /\ leadsArray[1].status = "success"
    /\ leadsArray[1].lastModifiedTime = 0
    /\ CalledBy(7, leadsArray[1])
    /\ report.summary.totalLeads = 0
    /\ \A i \in DOMAIN report.data.agentPerformance :
         report.data.agentPerformance[i].convertedLeads = 0

\* a 'success' lead without lastModifiedTime in the campaign report
C9_WitnessUndated ==
    /\ Done("campaign-analytics")
    /\ Len(leadsArray) = 1
    /\ leadsArray[1].status = "success"
    /\ leadsArray[1].lastModifiedTime = None
    /\ leadsArray[1].campaignId = 3
    /\ report.summary.totalConvertedLeads = 0
    /\ \A i \in DOMAIN report.data.campaignAnalytics :
         report.data.campaignAnalytics[i].totalLeads = 0

\* the rows of the report that may be ranked
Rankable == {i \in DOMAIN data.agentPerformance :
                LET a == data.agentPerformance[i]
                IN a.totalCalls >= 5 /\ a.convertedLeads > 0 /\ a.agentId # 0}

\* row a must come before row b in the ranking
Outranks(a, b) ==
    \/ a.conversionRate > b.conversionRate
    \/ a.conversionRate = b.conversionRate /\ a.totalCalls < b.totalCalls

\* C10: every agent of the report has a row in the agent table, with a rank
\* iff totalCalls >= 5, convertedLeads > 0 and agentId # 0; the ranks are
\* 1..k in the order of conversionRate descending and, on equal rates, of
\* totalCalls ascending; the top performers of the PDF are the first five of
\* that ranking, so an ineligible agent is never among them.
C10_TopPerformerRanking ==
    LET rows == data.agentPerformance IN
    /\ "table" \in rendered =>
         /\ Len(agentTable) = Len(rows)
         /\ \A i \in DOMAIN rows :
              /\ agentTable[i].agentId = rows[i].agentId
              /\ agentTable[i].rank # None <=> i \in Rankable
         /\ {agentTable[i].rank : i \in Rankable} = 1..Cardinality(Rankable)
         /\ \A i, j \in Rankable :
              Outranks(rows[i], rows[j]) => agentTable[i].rank < agentTable[j].rank
    /\ "pdf" \in rendered =>
         /\ Len(topAgents) = Min(5, Cardinality(Rankable))
         /\ \A p \in DOMAIN topAgents : \E i \in Rankable : rows[i] = topAgents[p]
         /\ \A p, q \in DOMAIN topAgents :
              /\ p # q => topAgents[p].agentId # topAgents[q].agentId
              /\ Outranks(topAgents[p], topAgents[q]) => p < q
         /\ \A i \in Rankable :
              (\A p \in DOMAIN topAgents : topAgents[p] # rows[i]) =>
                 \A p \in DOMAIN topAgents : ~Outranks(rows[i], topAgents[p])
    /\ {"table", "pdf"} \subseteq rendered =>
         \A p \in DOMAIN topAgents :
            \E i \in Rankable : rows[i] = topAgents[p] /\ agentTable[i].rank = p

\* Scenario D and P6 in one table: an agent with 4 calls and a rate of 100%
\* and the system row have no rank; of two agents with the same rate the one
\* with fewer calls has the better rank
C10_Witness ==
    LET rows == data.agentPerformance IN
    /\ "table" \in rendered
    /\ \E i \in DOMAIN rows :
         /\ rows[i].totalCalls = 4 /\ rows[i].conversionRate = 10000
         /\ agentTable[i].rank = None
    /\ \E i \in DOMAIN rows :
         /\ rows[i].agentId = 0 /\ rows[i].totalCalls = 10 /\ rows[i].convertedLeads = 2
         /\ agentTable[i].rank = None
    /\ \E i, j \in DOMAIN rows :
         /\ rows[i].conversionRate = rows[j].conversionRate
         /\ rows[i].totalCalls = 5 /\ rows[j].totalCalls = 10
         /\ agentTable[i].rank = 1 /\ agentTable[j].rank = 2

\* six eligible agents: all six have a rank in the table, five are in the PDF
C10_WitnessTopFive ==
    /\ rendered = {"table", "pdf"}
    /\ Cardinality(Rankable) = 6
    /\ Len(topAgents) = 5
    /\ \E i \in DOMAIN agentTable : agentTable[i].rank = 6

(***************************************************************************)
(* Properties of the lead resolution loop.                                 *)
(***************************************************************************)
\* the lead ids referenced by the in-range calls: the K ids to resolve
RequestedIds == LeadIdsOf(FilterCalls(cdrArray))

\* the ids of the leads on pages 1..p of the server
IdsOnPages(p) ==
    UNION {{leadPages[q][i].id : i \in DOMAIN leadPages[q]} :
              q \in 1..Min(p, Len(leadPages))}

FirstEmptyPage == SetMin({p \in 1..Len(leadPages) + 1 : LeadPageAt(p) = <<>>})

CompletePages == {p \in 1..Len(leadPages) : RequestedIds \subseteq IdsOnPages(p)}

\* the page after which the loop has to stop
StopPage ==
    IF CompletePages = {} THEN FirstEmptyPage
    ELSE Min(SetMin(CompletePages), FirstEmptyPage)

LeadsArrayIds == {leadsArray[i].id : i \in DOMAIN leadsArray}

\* C4: the k-th request of the lead resolver asks for page k; with K >= 1 ids
\* it stops right after the first page at which all K ids are matched, or
\* after the first empty page if that comes first; an id on no page visited
\* has no entry in the result and the report is still returned; with K = 0
\* no lead page is requested.
C4_LeadResolutionBounded ==
    /\ leadRequests = Upto(Len(leadRequests))
    /\ RequestedIds = {} => leadRequests = <<>>
    /\ RequestedIds # {} => Len(leadRequests) <= StopPage
    /\ (rpc = "done" /\ RequestedIds # {}) =>
          /\ Len(leadRequests) = StopPage
          /\ LeadsArrayIds = RequestedIds \cap IdsOnPages(StopPage)
          /\ Len(leadsArray) = Cardinality(LeadsArrayIds)

\* both ids are found on page 1 and the non-empty page 2 is never requested
C4_Witness ==
    /\ rpc = "done"
    /\ Cardinality(RequestedIds) = 2
    /\ Len(leadPages) = 2
    /\ leadPages[2] # <<>>
    /\ leadRequests = <<1>>
    /\ Len(leadsArray) = 2

\* an id that is on no page is simply absent from the result
C4_WitnessAbsentId ==
    /\ rpc = "done"
    /\ Cardinality(RequestedIds) = 2
    /\ Len(leadsArray) = 1
    /\ Len(leadRequests) = Len(leadPages) + 1

(***************************************************************************)
(* The fetch-all loop on its own.                                          *)
(***************************************************************************)
InitSpecFetch == InitFetch /\ NoReportRequest /\ NoView /\ NoCache /\ NoRoutes

SpecFetch == InitSpecFetch /\ [][NextFetch]_vars

(***************************************************************************)
(* Properties of the fetch-all loop.                                       *)
(***************************************************************************)
RECURSIVE ConcatPages(_, _)
ConcatPages(from, to) ==
    IF from > to THEN <<>> ELSE SrvPage(from) \o ConcatPages(from + 1, to)

ReqPages == [i \in 1..Len(requests) |-> requests[i].page]

\* the requests answered "ok", in order
OkRequests == SelectSeq(Upto(Len(answers)), LAMBDA i : answers[i] = "ok")

OkPages == [k \in 1..Len(OkRequests) |-> requests[OkRequests[k]].page]

\* the result of the loop against the same server when no request fails
RECURSIVE FetchFrom(_, _)
FetchFrom(page, acc) ==
    LET len == SrvPageLen(page) IN
    IF ~AppendsPage(len) THEN acc
    ELSE IF StopsAfter(page, len) THEN acc \o SrvPage(page)
    ELSE FetchFrom(page + 1, acc \o SrvPage(page))

\* N >= 1 records served as pages of the requested size, the last one partial,
\* with page-count metadata that is right when present
PartialLastPage ==
    /\ srvTotal >= 1
    /\ srvPageSize = pageSize
    /\ srvTotal % srvPageSize # 0
    /\ srvMeta => srvPageCount = SrvPages

NoFailure == n429 = 0 /\ failedAt = 0

\* C1: against a server holding N >= 1 records in P pages of size S, the last
\* one partial, with or without page-count metadata and with no failing
\* request, the loop requests pages 1..P in order, once each, and returns
\* exactly the N records, each once, in the order received.
C1_FetchAllPagination ==
    (PartialLastPage /\ NoFailure) =>
        /\ ReqPages = Upto(Len(requests))
        /\ Len(requests) <= SrvPages
        /\ fpc = "done" =>
            /\ ReqPages = Upto(SrvPages)
            /\ allCdrs = Upto(srvTotal)

C1_Witness ==
    /\ fpc = "done"
    /\ PartialLastPage
    /\ NoFailure
    /\ SrvPages >= 2
    /\ srvMeta
    /\ Len(allCdrs) = srvTotal

\* C2: a 429 answer to the request for page N leaves the cursor at N and the
\* accumulated records as they are; after the cooldown page N is requested
\* again; pages are answered "ok" in the order 1, 2, 3, ... once each (none
\* skipped, none appended twice); the final result is the one of the same
\* run without throttling.
C2_ThrottleResilience ==
    /\ \A i \in DOMAIN answers :
         answers[i] = "429" =>
            /\ currentPage >= requests[i].page
            /\ fpc = "cooldown" /\ i = Len(answers) => currentPage = requests[i].page
            /\ i + 1 \in DOMAIN requests =>
                /\ requests[i + 1].page = requests[i].page
                /\ CooldownMs \in SeqRange(requests[i + 1].waited)
    /\ OkPages = Upto(Len(OkPages))
    /\ allCdrs = ConcatPages(1, Len(OkPages))
    /\ (fpc = "done" /\ failedAt = 0) => allCdrs = FetchFrom(1, <<>>)

C2_Witness ==
    /\ fpc = "done"
    /\ failedAt = 0
    /\ \E i \in DOMAIN answers : answers[i] = "429" /\ requests[i].page = 2
    /\ srvTotal > srvPageSize
    /\ Len(allCdrs) = srvTotal

\* C3: when the request for page N fails with an error other than 429 the
\* loop stops: the failed request is the last one issued, the loop goes on
\* to return (it has no state in which it raises), and the records are those
\* of pages 1..N-1 in order.
C3_BestEffortAbort ==
    failedAt # 0 =>
        /\ Len(requests) = Len(answers)
        /\ answers[Len(answers)] = "error"
        /\ requests[Len(requests)].page = failedAt
        /\ \A i \in 1..(Len(answers) - 1) : answers[i] # "error"
        /\ fpc \in {"top", "done"}
        /\ ~hasMorePages
        /\ allCdrs = ConcatPages(1, failedAt - 1)

C3_Witness ==
    /\ fpc = "done"
    /\ failedAt = 2
    /\ srvTotal > srvPageSize
    /\ Len(allCdrs) = srvPageSize

C3_WitnessFirstPage ==
    /\ fpc = "done"
    /\ failedAt = 1
    /\ allCdrs = <<>>

(***************************************************************************)
(* The report cache.                                                       *)
(***************************************************************************)
InitSpecCache == InitCache /\ NoRoutes /\ NoReportRequest /\ NoFetch /\ NoView

SpecCache == InitSpecCache /\ [][NextCache]_vars

\* the last get addressed a key that a set has stored and that no invalidate
\* or clear has removed since
GetAfterSet == lastGet.tuple # <<>> /\ lastGet.expected.data # Absent

\* C11: a get made later than the entry's expiresAt returns absent and leaves
\* no entry under that key; a get made no later than expiresAt, with no
\* invalidate, clear or overwriting set in between, returns the payload most
\* recently set for the key.
C11_CacheExpiry ==
    GetAfterSet =>
        /\ lastGet.at > lastGet.expected.expiresAt =>
               lastGet.result = Absent /\ ~lastGet.stillCached
        /\ lastGet.at <= lastGet.expected.expiresAt =>
               lastGet.result = lastGet.expected.data /\ lastGet.stillCached

\* set with ttl = 1s at time 0, get after 2s: absent
C11_Witness ==
    /\ GetAfterSet
    /\ lastGet.expected.expiresAt = 1
    /\ lastGet.at = 2
    /\ lastGet.result = Absent

\* a get exactly at expiresAt still returns the payload
C11_WitnessAtDeadline ==
    /\ GetAfterSet
    /\ lastGet.at = lastGet.expected.expiresAt
    /\ lastGet.result = lastGet.expected.data

\* the default time to live applies when ttl is 0 or not given
C11_WitnessDefaultTTL ==
    /\ GetAfterSet
    /\ lastGet.expected.expiresAt = DefaultTTL
    /\ lastGet.at = DefaultTTL + 1
    /\ lastGet.result = Absent

\* C12: a get returns a report only if it was stored by a set with the same
\* reportType, startDate and endDate, character for character.
C12_KeyIsExactTuple ==
    (lastGet.tuple # <<>> /\ lastGet.result # Absent) =>
        lastGet.expected.tuple = lastGet.tuple

(***************************************************************************)
(* The routes and the cache.                                               *)
(***************************************************************************)
InitSpecRoutes == InitRoutes /\ NoReportRequest /\ NoFetch /\ NoView

SpecRoutes == InitSpecRoutes /\ [][NextRoutes]_vars

Computed(r) == r.setAt > 0

\* both computations were in flight at some moment
InFlightTogether(r1, r2) == r1.startedAt < r2.setAt /\ r2.startedAt < r1.setAt

ClearedSince(n) == \E c \in clears : c > n

\* a further request has stored under the key of tu after step n
SetSince(tu, n) ==
    \E k \in DOMAIN routeReqs :
        routeReqs[k].setAt > n /\ GenerateKey(routeReqs[k].tuple) = GenerateKey(tu)

\* nothing has replaced or removed what request r stored
Undisturbed(r) == ~ClearedSince(r.setAt) /\ ~SetSince(r.tuple, r.setAt)

\* C13: two computations for the same key in flight at the same time each
\* compute in full and each set; once both have finished the cache holds the
\* payload of the later set (until a clear, a further set or its expiry);
\* neither reuses the other's computation.
C13_LastWriteWins ==
    \A i, j \in DOMAIN routeReqs :
        LET r1 == routeReqs[i]
            r2 == routeReqs[j] IN
        (/\ i # j
         /\ GenerateKey(r1.tuple) = GenerateKey(r2.tuple)
         /\ Computed(r1) /\ Computed(r2)
         /\ InFlightTogether(r1, r2)
         /\ r1.setAt < r2.setAt) =>
            /\ r1.upstream = 1 /\ r2.upstream = 1
            /\ r1.sets = 1 /\ r2.sets = 1
            /\ ~r1.hit /\ ~r2.hit
            /\ r1.payload # r2.payload
            /\ (Undisturbed(r2) /\ GenerateKey(r2.tuple) \in DOMAIN cache) =>
                   cache[GenerateKey(r2.tuple)].data = r2.payload
            /\ (Undisturbed(r2) /\ now <= r2.expiresAt) =>
                   GenerateKey(r2.tuple) \in DOMAIN cache

\* a generate and an export that missed were in flight together and both have set
C13_Witness ==
    /\ Len(routeReqs) = 2
    /\ routeReqs[1].route = "generate" /\ routeReqs[2].route = "export"
    /\ routeReqs[1].tuple = routeReqs[2].tuple
    /\ Computed(routeReqs[1]) /\ Computed(routeReqs[2])
    /\ routeReqs[2].startedAt < routeReqs[1].setAt
    /\ routeReqs[2].setAt < routeReqs[1].setAt
    /\ cache[GenerateKey(routeReqs[1].tuple)].data = routeReqs[1].payload

\* two generate requests in flight together
C13_WitnessTwoGenerates ==
    /\ Len(routeReqs) = 2
    /\ routeReqs[1].route = "generate" /\ routeReqs[2].route = "generate"
    /\ routeReqs[1].tuple = routeReqs[2].tuple
    /\ Computed(routeReqs[1]) /\ Computed(routeReqs[2])
    /\ InFlightTogether(routeReqs[1], routeReqs[2])

\* generate request g had completed successfully, with the same three
\* strings, when export request x looked into the cache; the entry had not
\* expired and no clear came in between
ReusableFor(g, x) ==
    /\ g.route = "generate" /\ g.success = "true"
    /\ x.route = "export" /\ x.gotAt > 0
    /\ g.tuple = x.tuple
    /\ g.setAt < x.gotAt
    /\ x.gotNow <= g.expiresAt
    /\ ~\E c \in clears : g.setAt < c /\ c < x.gotAt

\* C14: an export that arrives after a successful generate with the identical
\* three strings, before the entry expires and with no clear in between, uses
\* the cached report and issues no upstream request; an export that finds no
\* live entry computes the report once and stores it.
C14_GenerateThenExportReuse ==
    \A j \in DOMAIN routeReqs :
        LET x == routeReqs[j] IN
        /\ (\E i \in DOMAIN routeReqs : ReusableFor(routeReqs[i], x)) =>
               /\ x.hit /\ x.payload # Absent
               /\ x.upstream = 0 /\ x.sets = 0
        /\ (x.route = "export" /\ x.gotAt > 0 /\ ~x.liveAtGet) =>
               /\ ~x.hit
               /\ x.upstream <= 1 /\ x.sets <= 1
               /\ (x.pc = "rendering" \/ x.success = "true") =>
                      /\ x.upstream = 1 /\ x.sets = 1 /\ x.payload # Absent
                      /\ Undisturbed(x) /\ now <= x.expiresAt =>
                             /\ GenerateKey(x.tuple) \in DOMAIN cache
                             /\ cache[GenerateKey(x.tuple)].data = x.payload

\* generate completed, then the export answered from the cache
C14_Witness ==
    /\ Len(routeReqs) = 2
    /\ ReusableFor(routeReqs[1], routeReqs[2])
    /\ routeReqs[2].success = "true"
    /\ routeReqs[2].payload = routeReqs[1].payload
    /\ routeReqs[2].upstream = 0

\* the export came after the entry had expired: it computed and stored
C14_WitnessExpired ==
    /\ Len(routeReqs) = 2
    /\ routeReqs[1].route = "generate" /\ routeReqs[1].success = "true"
    /\ routeReqs[2].route = "export" /\ routeReqs[2].tuple = routeReqs[1].tuple
    /\ routeReqs[2].gotNow > routeReqs[1].expiresAt
    /\ routeReqs[2].success = "true" /\ routeReqs[2].sets = 1

\* generateReport raised an error in request r
ComputationFailed(r) == r.pc = "done" /\ r.success = "false" /\ r.status = 500 /\ r.payload = Absent

\* C15 as stated: when generateReport fails, the request performs no set, the
\* cache map is exactly as it was before the request, and the answer is an
\* explicit failure.
C15_FailureLeavesCacheUntouched ==
    \A i \in DOMAIN routeReqs :
        ComputationFailed(routeReqs[i]) =>
            /\ routeReqs[i].sets = 0
            /\ ~routeReqs[i].mapChanged
            /\ routeReqs[i].success = "false"

\* C15 (amended): when generateReport fails, the request performs no set and
\* creates no entry, and the answer is an explicit failure; the only change
\* the request can make to the map is the export route's eviction, by its
\* get, of an entry of its key that had already expired.
C15_FailureStoresNothing ==
    \A i \in DOMAIN routeReqs :
        LET r == routeReqs[i] IN
        ComputationFailed(r) =>
            /\ r.sets = 0 /\ r.setAt = 0 /\ ~r.created
            /\ r.success = "false" /\ r.status = 500
            /\ r.mapChanged => (r.route = "export" /\ ~r.liveAtGet)
            /\ (~SetSince(r.tuple, r.startedAt) /\ GenerateKey(r.tuple) \in DOMAIN cache) =>
                   /\ cache[GenerateKey(r.tuple)].data = lastSet[GenerateKey(r.tuple)].data
                   /\ cache[GenerateKey(r.tuple)].data # r.payload

\* a generate request failed while another one's entry stayed in the cache
C15_Witness ==
    /\ Len(routeReqs) = 2
    /\ routeReqs[1].success = "true" /\ routeReqs[1].sets = 1
    /\ routeReqs[2].route = "generate" /\ routeReqs[2].tuple = routeReqs[1].tuple
    /\ ComputationFailed(routeReqs[2]) /\ routeReqs[2].upstream = 1
    /\ cache[GenerateKey(routeReqs[2].tuple)].data = routeReqs[1].payload

\* an export request evicted the expired entry, then its computation failed
C15_WitnessEviction ==
    \E i \in DOMAIN routeReqs :
        /\ routeReqs[i].route = "export"
        /\ ComputationFailed(routeReqs[i]) /\ routeReqs[i].upstream = 1
        /\ routeReqs[i].mapChanged

\* C16: generateReport with a report type other than call-summary,
\* agent-performance and campaign-analytics fails without any upstream request
\* and without any cache write; a route request that lacks reportType,
\* startDate or endDate is rejected before any report computation starts.
C16_InvalidRequestBeforeWork ==
    \A i \in DOMAIN routeReqs :
        LET r == routeReqs[i] IN
        /\ (~MissingParam(r.tuple) /\ ~KnownReportType(r.tuple)) =>
               /\ r.upstream = 0 /\ r.sets = 0 /\ ~r.created /\ r.payload = Absent
               /\ r.pc \in {"computing", "done"}
               /\ r.pc = "done" => (r.success = "false" /\ r.status = 500)
        /\ MissingParam(r.tuple) =>
               /\ r.pc = "done" /\ r.success = "false" /\ r.status = 400
               /\ r.upstream = 0 /\ r.sets = 0 /\ r.gotAt = 0 /\ ~r.mapChanged
               /\ r.payload = Absent

\* an unknown report type was rejected by generateReport in each route
C16_Witness ==
    /\ Len(routeReqs) = 2
    /\ routeReqs[1].route = "generate" /\ routeReqs[2].route = "export"
    /\ \A i \in {1, 2} :
           /\ routeReqs[i].tuple[1] = <<"bogus">>
           /\ routeReqs[i].pc = "done" /\ routeReqs[i].status = 500

\* requests without startDate and without endDate were rejected
C16_WitnessMissing ==
    /\ Len(routeReqs) = 2
    /\ routeReqs[1].tuple[2] = <<>> /\ routeReqs[2].tuple[3] = <<>>
    /\ routeReqs[1].status = 400 /\ routeReqs[2].status = 400

(***************************************************************************)
(* Failures of upstream requests during a report computation.              *)
(***************************************************************************)
\* a request for a page of calls was answered with an error other than 429
CallPageFailed == failedAt # 0

\* the calls of the pages read before the failed one (all calls without failure)
CallsBeforeFailure ==
    IF CallPageFailed
    THEN SubSeq(srvCalls, 1, Min(Len(srvCalls), (failedAt - 1) * srvPageSize))
    ELSE srvCalls

\* C17 as stated: when an upstream request of the Fetching or Resolving-Leads
\* phase has failed, generateReport fails and returns no report: a report
\* returned as success is computed from the complete collection.
C17_NoPartialReportAsSuccess ==
    /\ (CallPageFailed /\ rpc \in {"done", "failed"}) =>
           (rpc = "failed" /\ report = NoReport)
    /\ failure # NoUpstreamFailure => (rpc = "failed" /\ report = NoReport)
    /\ rpc = "done" => cdrArray = srvCalls

\* C17 (amended): a failed request for agents, campaigns or a lead page makes
\* generateReport fail with no report; a failed request for a page of calls
\* (other than 429) ends the pagination, and the report is computed, and
\* returned as success, from the calls of the pages read before it.
C17_PartialOnlyFromCallPages ==
    /\ failure # NoUpstreamFailure =>
           /\ rpc = "failed" /\ report = NoReport
           /\ failure.request \in {"users", "campaigns", "leads"}
    /\ rpc \in {"fetching", "resolving", "done"} => cdrArray = CallsBeforeFailure
    /\ rpc = "done" =>
           /\ report = BuildReport(FilterCalls(CallsBeforeFailure), leadsArray)
           /\ ~CallPageFailed => cdrArray = srvCalls

\* the second page of calls failed; the report counts the first call only
C17_Witness ==
    /\ rpc = "done"
    /\ Len(srvCalls) = 2
    /\ failedAt = 2
    /\ Len(cdrArray) = 1
    /\ report.summary.totalCalls = 1

\* a lead page request failed: no report
C17_WitnessLeadPage ==
    /\ rpc = "failed"
    /\ failure.request = "leads"
    /\ report = NoReport
    /\ Len(cdrArray) = 2

\* C18: a 429 answer to any upstream request of a report computation is
\* followed by the cooldown and a retry of the same request and never makes
\* generateReport fail.
C18_ThrottlingNeverSurfaces ==
    /\ rpc = "failed" => failure.status # 429
    /\ \A i \in DOMAIN answers :
           (answers[i] = "429" /\ i < Len(requests)) =>
               requests[i + 1].page = requests[i].page

\* as implemented, only the requests for pages of calls are retried after 429
C18_AsImplemented ==
    /\ (rpc = "failed" /\ failure.status = 429) =>
           failure.request \in {"users", "campaigns", "leads"}
    /\ \A i \in DOMAIN answers :
           (answers[i] = "429" /\ i < Len(requests)) =>
               requests[i + 1].page = requests[i].page

(***************************************************************************)
(* Bounds and presence of the rollup rows.                                 *)
(***************************************************************************)
DailyBucketBounded(b) ==
    /\ \A n \in {b.total, b.inbound, b.outbound, b.answered, b.noAnswer,
                 b.inboundAnswered, b.inboundNoAnswer, b.outboundAnswered,
                 b.outboundNoAnswer, b.duration, b.conversationTime} : n >= 0
    /\ b.answered + b.noAnswer <= b.total
    /\ b.inbound + b.outbound <= b.total
    /\ b.inboundAnswered + b.inboundNoAnswer <= b.inbound
    /\ b.outboundAnswered + b.outboundNoAnswer <= b.outbound

AgentRowBounded(r) ==
    /\ \A n \in {r.totalCalls, r.inboundCalls, r.outboundCalls, r.answeredCalls,
                 r.completedCalls, r.missedCalls, r.totalDuration,
                 r.totalConversationTime, r.totalLeads, r.convertedLeads} : n >= 0
    /\ r.answeredCalls + r.missedCalls <= r.totalCalls
    /\ r.inboundCalls + r.outboundCalls <= r.totalCalls

CampaignRowBounded(r) ==
    /\ \A n \in {r.totalCalls, r.inboundCalls, r.outboundCalls, r.answeredCalls,
                 r.completedCalls, r.missedCalls, r.busyCalls, r.congestionCalls,
                 r.totalDuration, r.totalConversationTime, r.totalLeads,
                 r.convertedLeads} : n >= 0
    /\ r.answeredCalls + r.missedCalls + r.busyCalls + r.congestionCalls <= r.totalCalls
    /\ r.inboundCalls + r.outboundCalls <= r.totalCalls

\* C19: in every daily bucket, agent row and campaign row of a returned
\* report all counters are non-negative and the disposition sub-counts
\* together do not exceed the calls of the bucket, whatever the dispositions
\* and directions of the calls.
C19_BucketBounds ==
    /\ Done("call-summary") =>
         \A i \in DOMAIN report.data.dailyStats :
            DailyBucketBounded(report.data.dailyStats[i])
    /\ Done("agent-performance") =>
         \A i \in DOMAIN report.data.agentPerformance :
            AgentRowBounded(report.data.agentPerformance[i])
    /\ Done("campaign-analytics") =>
         \A i \in DOMAIN report.data.campaignAnalytics :
            CampaignRowBounded(report.data.campaignAnalytics[i])

UnknownCall(c) == c.disposition \notin KnownDispositions /\ c.type \notin {"inbound", "outbound"}

\* a call-summary over two calls, one of them of unknown disposition and direction
C19_Witness ==
    /\ Done("call-summary")
    /\ Len(InRangeCalls) = 2
    /\ \E i \in DOMAIN InRangeCalls : UnknownCall(InRangeCalls[i])
    /\ \E i \in DOMAIN report.data.dailyStats : report.data.dailyStats[i].total = 2

\* a campaign row with a call of unknown disposition: sub-counts below the total
C19_WitnessCampaign ==
    /\ Done("campaign-analytics")
    /\ \E i \in DOMAIN report.data.campaignAnalytics :
          LET r == report.data.campaignAnalytics[i] IN
          /\ r.totalCalls = 2
          /\ r.answeredCalls + r.missedCalls + r.busyCalls + r.congestionCalls = 1

\* one row for each id of ids and no other row
OneRowEach(rowIds, ids) ==
    /\ {rowIds[i] : i \in DOMAIN rowIds} = ids
    /\ Len(rowIds) = Cardinality(ids)

\* the resolved leads modified inside the window whose own campaignId is k
WindowLeadsOfCampaign(k) ==
    SelectSeq(FilterLeads(leadsArray), LAMBDA l : ParseIntOr0(l.campaignId) = k)

\* C20: the agent-performance report has exactly one row for every fetched
\* agent plus the id-0 row, the campaign-analytics report exactly one row for
\* every fetched campaign plus the id-0 row; a row whose entity has no
\* in-range call has all counters and rates zero; a call whose agent or
\* campaign id is 0, missing or unparsable is counted in the id-0 row.
C20_RollupPresence ==
    /\ Done("agent-performance") =>
         LET rows == report.data.agentPerformance IN
         /\ OneRowEach([i \in DOMAIN rows |-> rows[i].agentId], usersArray \cup {0})
         /\ \A i \in DOMAIN rows :
              /\ rows[i].totalCalls = Len(CallsOfAgent(rows[i].agentId))
              /\ CallsOfAgent(rows[i].agentId) = <<>> =>
                     rows[i] = ZeroAgent(rows[i].agentId)
    /\ Done("campaign-analytics") =>
         LET rows == report.data.campaignAnalytics IN
         /\ OneRowEach([i \in DOMAIN rows |-> rows[i].campaignId], campaignsArray \cup {0})
         /\ \A i \in DOMAIN rows :
              /\ rows[i].totalCalls = Len(CallsOfCampaign(rows[i].campaignId))
              /\ CallsOfCampaign(rows[i].campaignId) = <<>> =>
                     rows[i] = ZeroCampaign(rows[i].campaignId)

\* what does hold: the rows are those, and an agent without in-range calls has
\* a zero row; a campaign without in-range calls has zero call counters, but
\* its lead counters count the resolved in-window leads that carry its id
C20_AsImplemented ==
    /\ Done("agent-performance") =>
         LET rows == report.data.agentPerformance IN
         /\ OneRowEach([i \in DOMAIN rows |-> rows[i].agentId], usersArray \cup {0})
         /\ \A i \in DOMAIN rows :
              /\ rows[i].totalCalls = Len(CallsOfAgent(rows[i].agentId))
              /\ CallsOfAgent(rows[i].agentId) = <<>> =>
                     rows[i] = ZeroAgent(rows[i].agentId)
    /\ Done("campaign-analytics") =>
         LET rows == report.data.campaignAnalytics IN
         /\ OneRowEach([i \in DOMAIN rows |-> rows[i].campaignId], campaignsArray \cup {0})
         /\ \A i \in DOMAIN rows :
              LET k == rows[i].campaignId
                  mine == WindowLeadsOfCampaign(k)
                  won == CountIf(mine, LAMBDA l : l.status = "success") IN
              /\ rows[i].totalCalls = Len(CallsOfCampaign(k))
              /\ CallsOfCampaign(k) = <<>> =>
                     rows[i] = [ZeroCampaign(k) EXCEPT
                                   !.totalLeads = Len(mine),
                                   !.convertedLeads = won,
                                   !.conversionRate = RatePct(won, Len(mine))]

\* campaign k has an in-window call that references the lead
CalledByCampaign(k, lead) ==
    \E j \in DOMAIN cdrArray :
        /\ InWindow(cdrArray[j].startTime)
        /\ HasLead(cdrArray[j])
        /\ cdrArray[j].leadId = lead.id
        /\ ParseIntOr0(cdrArray[j].campaignId) = k

\* C21: in the campaign-analytics report a resolved in-window lead is counted
\* in totalLeads (and in convertedLeads when its status is 'success') of every
\* campaign that has an in-window call referencing the lead, and of no other
\* campaign.
C21_CampaignLeadJoin ==
    Done("campaign-analytics") =>
        \A i \in DOMAIN report.data.campaignAnalytics :
            LET r == report.data.campaignAnalytics[i]
                mine == {k \in WindowLeads : CalledByCampaign(r.campaignId, leadsArray[k])}
            IN /\ r.totalLeads = Cardinality(mine)
               /\ r.convertedLeads = Cardinality(Converted(mine))

\* what does hold: a lead is counted in the row of its own campaignId
C21_AsImplemented ==
    Done("campaign-analytics") =>
        \A i \in DOMAIN report.data.campaignAnalytics :
            LET r == report.data.campaignAnalytics[i]
                mine == {k \in WindowLeads :
                            ParseIntOr0(leadsArray[k].campaignId) = r.campaignId}
            IN /\ r.totalLeads = Cardinality(mine)
               /\ r.convertedLeads = Cardinality(Converted(mine))


(***************************************************************************)
(* The continuation rule of the fetch-all loop.                            *)
(***************************************************************************)
\* the rule: after a non-empty page p of length len the loop goes on to p + 1
ContinuesAfter(p, len) ==
    /\ len > 0
    /\ \/ srvMeta /\ p < srvPageCount
       \/ ~srvMeta /\ len = pageSize

\* the loop went on to page p + 1 after the answer to request i
WentOn(i) ==
    IF i < Len(requests) THEN requests[i + 1].page = requests[i].page + 1
    ELSE /\ hasMorePages
         /\ currentPage = requests[i].page + 1
         /\ fpc \in {"top", "delay"}

\* the loop ended with the answer to request i
EndedWith(i) ==
    /\ i = Len(requests)
    /\ ~hasMorePages
    /\ currentPage = requests[i].page
    /\ fpc \in {"top", "done"}

\* every page answered so far was followed as the rule says
RuleFollowed ==
    \A i \in 1..Len(answers) :
        answers[i] = "ok" =>
            LET p == requests[i].page
                len == SrvPageLen(p)
            IN /\ len <= pageSize
               /\ ContinuesAfter(p, len) => WentOn(i)
               /\ ~ContinuesAfter(p, len) => EndedWith(i)

\* after page p the server reports or holds a further page
MoreAfter(p) == (srvMeta /\ p < srvPageCount) \/ SrvPageLen(p + 1) > 0

C22_WitnessShortPage ==
    /\ fpc = "done"
    /\ ~srvMeta
    /\ srvPageSize < pageSize
    /\ NoFailure
    /\ Len(requests) = 1
    /\ SrvPageLen(2) > 0
    /\ Len(allCdrs) < srvTotal


(***************************************************************************)
(* Termination of the fetch-all loop. The event loop runs every ready      *)
(* continuation (loop head, elapsed delay, elapsed cooldown) and the       *)
(* server answers every request.                                           *)
(***************************************************************************)
InitSpecFetchLive ==
    (InitFetch \/ InitFetchEndless) /\ NoReportRequest /\ NoView /\ NoCache /\ NoRoutes

FairFetch ==
    /\ WF_vars(LoopReturn)
    /\ WF_vars(LoopDelay)
    /\ WF_vars(LoopGetFirst)
    /\ WF_vars(DelayDone)
    /\ WF_vars(CooldownDone)
    /\ WF_vars(ResponseOk \/ Response429 \/ ResponseError)

SpecFetchLive == InitSpecFetchLive /\ [][NextFetch]_vars /\ FairFetch

Returned == fpc = "done"

\* answer i ends the pagination: an empty page, a page numbered >= pageCount,
\* a short page without metadata, or an error other than 429
StopAnswer(i) ==
    \/ answers[i] = "error"
    \/ /\ answers[i] = "ok"
       /\ LET p == requests[i].page
              len == SrvPageLen(p)
          IN \/ len = 0
             \/ srvMeta /\ p >= srvPageCount
             \/ ~srvMeta /\ len < pageSize

StopAnswered == \E i \in 1..Len(answers) : StopAnswer(i)

\* C23: once the server has answered with an empty page, a page numbered >=
\* pageCount, a short page without metadata or a non-429 error, the loop
\* eventually returns; it returns for no other reason: as long as every
\* answer is a full page or a 429 it stays in the loop with hasMorePages set,
\* however many pages and retries that takes.
C23_Termination ==
    /\ StopAnswered ~> Returned
    /\ [](Returned => StopAnswered)
    /\ [](~StopAnswered => hasMorePages /\ fpc \in {"top", "delay", "get", "cooldown"})
    /\ [](~srvEndless => <>Returned)

\* the loop has returned after as many 429 answers as the server gave
C23_Witness ==
    /\ Returned
    /\ n429 = Max429
    /\ failedAt = 0
    /\ Len(allCdrs) = srvTotal
    /\ srvTotal >= 2

\* against the server of endless full pages the loop is still requesting
C23_WitnessEndless ==
    /\ srvEndless
    /\ Len(requests) = MaxSent
    /\ n429 = Max429
    /\ failedAt = 0
    /\ hasMorePages
    /\ ~Returned


(***************************************************************************)
(* Rate-limit discipline.                                                  *)
(***************************************************************************)
\* this step sends a page request of the fetch-all loop that is not its first
LaterFetchRequest == Len(requests') > Len(requests) /\ requests # <<>>

\* this step sends a page request of the Lead Resolver that is not its first
LaterLeadRequest == Len(leadRequests') > Len(leadRequests) /\ leadRequests # <<>>

\* the delays the fetch-all loop is coming out of when it sends a request
DelayBefore == IF fpc = "delay" THEN Append(waits, PageDelayMs) ELSE waits

\* C24: within one report computation every page request after the first to
\* the same resource is sent by a step that comes out of a fixed delay (1100
\* ms for CDR pages, 500 or 200 ms for lead pages, 60 s after a 429): in the
\* fetch-all loop and in the Lead Resolver, whose request for the next page
\* is therefore not sent by the step that receives the previous page.
C24_RateLimitDiscipline ==
    [][ /\ LaterFetchRequest => DelayBefore # <<>>
        /\ LaterLeadRequest => rpc # "resolving" ]_vars

\* what does hold: the fetch-all loop waits before every request but its first
C24_FetchLoopDelays ==
    [][ LaterFetchRequest =>
            /\ DelayBefore # <<>>
            /\ requests'[Len(requests')].waited = DelayBefore
            /\ SeqRange(DelayBefore) \subseteq {PageDelayMs, CooldownMs}
            /\ currentPage > 1 => DelayBefore[Len(DelayBefore)] = PageDelayMs
            /\ answers[Len(answers)] = "429" => CooldownMs \in SeqRange(DelayBefore) ]_vars

\* what the Lead Resolver does: the step that receives a page sends the next request
C24_ResolverSendsAtOnce ==
    [][ LaterLeadRequest =>
            /\ rpc = "resolving" /\ rpc' = "resolving"
            /\ leadPage' = leadPage + 1 ]_vars


(***************************************************************************)
(* No fan-out inside one pagination.                                       *)
(***************************************************************************)
\* page requests of the fetch-all loop not yet answered
Outstanding == Len(requests) - Len(answers)

\* page requests of the Lead Resolver not yet answered
LeadOutstanding == IF rpc = "resolving" THEN 1 ELSE 0

SetOn(k) == lastSet'[k] # lastSet[k] /\ lastSet'[k].data # Absent

\* the entry a set passed ttl at time t is to store
EntryFor(payload, ttl, t) ==
    [data |-> payload, timestamp |-> t,
     expiresAt |-> t + (IF ttl = None THEN DefaultTTL ELSE ttl)]

\* C26: set(key, report, ttl) at time now stores createdAt = now and
\* expiresAt = now + ttl for every explicitly passed ttl >= 0, and expiresAt =
\* now + 30 minutes when ttl is omitted, replacing payload, createdAt and
\* expiresAt of an existing entry; an entry set with ttl = 0 is absent for
\* every get at a later time.
C26_ExplicitTtl ==
    /\ [][ \A k \in DOMAIN lastSet :
               SetOn(k) =>
                   /\ k \in DOMAIN cache'
                   /\ cache'[k] = EntryFor(lastSet'[k].data, lastSet'[k].ttl, now) ]_vars
    /\ []( (/\ lastGet # NoGet
            /\ lastGet.expected.data # Absent
            /\ lastGet.expected.ttl = 0
            /\ lastGet.at > lastGet.expected.at) => lastGet.result = Absent )

\* what does hold: a ttl of 0 is replaced by the default like an omitted one
C26_ZeroTtlIsDefault ==
    /\ [][ \A k \in DOMAIN lastSet :
               SetOn(k) =>
                   /\ k \in DOMAIN cache'
                   /\ cache'[k] = EntryFor(lastSet'[k].data,
                                           IF lastSet'[k].ttl = 0 THEN None ELSE lastSet'[k].ttl,
                                           now) ]_vars
    /\ []( (/\ lastGet # NoGet
            /\ lastGet.expected.data # Absent
            /\ lastGet.expected.ttl = 0
            /\ lastGet.at <= lastGet.expected.at + DefaultTTL)
                => lastGet.result = lastGet.expected.data )


(***************************************************************************)
(* What each cache operation removes.                                      *)
(***************************************************************************)
\* entries whose expiresAt is earlier than the current time
ExpiredKeys(c) == {k \in DOMAIN c : c[k].expiresAt < now}

Removed == DOMAIN cache \ DOMAIN cache'

\* every entry the step keeps is the entry it found, but for the key written
KeptUnchanged(written) ==
    \A k \in (DOMAIN cache \cap DOMAIN cache') \ written : cache'[k] = cache[k]

\* no unexpired entry of a key other than those named is removed or changed
OthersUntouched(named) ==
    \A k \in (DOMAIN cache \ ExpiredKeys(cache)) \ named :
        k \in DOMAIN cache' /\ cache'[k] = cache[k]

\* C27: eviction removes exactly the expired entries. After a set or a
\* cleanup the map holds no entry with expiresAt earlier than the current
\* time; get(key) removes at most the entry of key and only when it is
\* expired; invalidate(key) removes exactly the entry of key; none of get,
\* set, cleanup, invalidate removes or changes an unexpired entry of another
\* key; clear leaves the map empty.
C27_EvictionFrame ==
    [][ /\ CacheSet =>
               \E k \in DOMAIN lastSet :
                   /\ SetOn(k)
                   /\ k \in DOMAIN cache'
                   /\ ExpiredKeys(cache') = {}
                   /\ Removed = ExpiredKeys(cache) \ {k}
                   /\ KeptUnchanged({k})
                   /\ OthersUntouched({k})
        /\ CacheCleanupTimer =>
               /\ ExpiredKeys(cache') = {}
               /\ Removed = ExpiredKeys(cache)
               /\ KeptUnchanged({})
               /\ OthersUntouched({})
        /\ CacheGet =>
               LET k == GenerateKey(lastGet'.tuple) IN
               /\ Removed \subseteq {k} \cap ExpiredKeys(cache)
               /\ (k \in ExpiredKeys(cache)) => k \in Removed
               /\ KeptUnchanged({})
               /\ OthersUntouched({k})
        /\ CacheInvalidate =>
               \E k \in DOMAIN lastSet :
                   /\ lastSet'[k] = NoEntry
                   /\ DOMAIN cache' = DOMAIN cache \ {k}
                   /\ KeptUnchanged({})
                   /\ OthersUntouched({k})
        /\ CacheClear => DOMAIN cache' = {} ]_vars

\* a sweep has evicted the expired entry of one key and kept the live entry
\* of another
C27_Witness ==
    \E k1, k2 \in DOMAIN lastSet :
        /\ k1 # k2
        /\ lastSet[k1].data # Absent
        /\ now > lastSet[k1].expiresAt
        /\ k1 \notin DOMAIN cache
        /\ k2 \in DOMAIN cache
        /\ cache[k2].expiresAt >= now
        /\ cache[k2].timestamp = now

\* a get has evicted the expired entry of its key
C27_WitnessGet ==
    /\ lastGet # NoGet
    /\ lastGet.expected.data # Absent
    /\ lastGet.at > lastGet.expected.expiresAt
    /\ lastGet.result = Absent
    /\ ~lastGet.stillCached
    /\ DOMAIN cache # {}


(***************************************************************************)
(* The Lead Resolver: resolved and outstanding ids.                        *)
(***************************************************************************)
Resolving == rpc \in {"resolving", "done"} /\ reportType \in ReportTypes

ResolvedIds == {leadsArray[i].id : i \in DOMAIN leadsArray}

\* number of lead pages processed so far
PagesProcessed == IF rpc = "resolving" THEN leadPage - 1 ELSE Len(leadRequests)

\* the leads of pages 1..n in the order received
RECURSIVE LeadsUpTo(_)
LeadsUpTo(n) == IF n = 0 THEN <<>> ELSE LeadsUpTo(n - 1) \o LeadPageAt(n)

\* the positions at which a requested id occurs for the first time
FirstOccurrences(q, ids) ==
    SelectSeq(Upto(Len(q)),
              LAMBDA i : q[i].id \in ids /\ \A j \in 1..(i - 1) : q[j].id # q[i].id)

\* C28: at every step of the Lead Resolver the resolved ids and the
\* outstanding set are disjoint and their union is the set of requested ids
\* (the lead ids of the in-range calls); the result holds at most one record
\* per id, and it is the first occurrence of that id in page order, also when
\* the lead is listed on several pages or several times on one page.
C28_ResolverPartition ==
    Resolving =>
        /\ uniqueLeadIds = LeadIdsOf(FilterCalls(cdrArray))
        /\ ResolvedIds \cap remainingLeadIds = {}
        /\ ResolvedIds \cup remainingLeadIds = uniqueLeadIds
        /\ \A i, j \in DOMAIN leadsArray : leadsArray[i].id = leadsArray[j].id => i = j
        /\ LET seen == LeadsUpTo(PagesProcessed)
               first == FirstOccurrences(seen, uniqueLeadIds)
           IN leadsArray = [k \in 1..Len(first) |-> seen[first[k]]]

\* lead 1 was listed twice on the first page in different versions and again
\* on the second page; the first version is the one resolved
C28_Witness ==
    /\ rpc = "done"
    /\ Len(leadRequests) = 2
    /\ Len(leadPages) = 2
    /\ Len(leadPages[1]) = 2
    /\ leadPages[1][1].id = 1 /\ leadPages[1][2].id = 1
    /\ leadPages[1][1] # leadPages[1][2]
    /\ \E i \in DOMAIN leadPages[2] : leadPages[2][i].id = 1
    /\ leadsArray[1] = leadPages[1][1]
    /\ Len(leadsArray) = 2


(***************************************************************************)
(* Call conservation across rows.                                          *)
(***************************************************************************)
RECURSIVE SumTotalCalls(_)
SumTotalCalls(rows) ==
    IF rows = <<>> THEN 0 ELSE Head(rows).totalCalls + SumTotalCalls(Tail(rows))

\* the in-range calls whose id (0 when missing) has no row: the id is neither
\* 0 nor the id of a fetched agent or campaign
Strays(idOf, fetched) ==
    {i \in DOMAIN InRangeCalls : idOf[i] # 0 /\ idOf[i] \notin fetched}

AgentIdOf == [i \in DOMAIN InRangeCalls |-> ParseIntOr0(InRangeCalls[i].userId)]

CampaignIdOf == [i \in DOMAIN InRangeCalls |-> ParseIntOr0(InRangeCalls[i].campaignId)]

\* C29: every in-range call is counted in the totalCalls of at most one row (the
\* row of its agentId, rows having distinct ids); the sum of totalCalls over
\* the rows is <= summary.totalCalls, with equality iff the agentId of every
\* in-range call is 0 or the id of a fetched agent; a call whose non-zero
\* agentId belongs to no fetched agent is in summary.totalCalls and in no
\* row. The same for campaign rows and campaignId.
C29_CallConservation ==
    /\ Done("agent-performance") =>
         LET rows == report.data.agentPerformance
             strays == Strays(AgentIdOf, usersArray)
         IN /\ \A i, j \in DOMAIN rows : rows[i].agentId = rows[j].agentId => i = j
            /\ \A i \in DOMAIN rows : rows[i].totalCalls = Len(CallsOfAgent(rows[i].agentId))
            /\ report.summary.totalCalls = Len(InRangeCalls)
            /\ SumTotalCalls(rows) = report.summary.totalCalls - Cardinality(strays)
            /\ SumTotalCalls(rows) = report.summary.totalCalls <=> strays = {}
            /\ \A i \in strays : \A j \in DOMAIN rows : rows[j].agentId # AgentIdOf[i]
    /\ Done("campaign-analytics") =>
         LET rows == report.data.campaignAnalytics
             strays == Strays(CampaignIdOf, campaignsArray)
         IN /\ \A i, j \in DOMAIN rows : rows[i].campaignId = rows[j].campaignId => i = j
            /\ \A i \in DOMAIN rows :
                   rows[i].totalCalls = Len(CallsOfCampaign(rows[i].campaignId))
            /\ report.summary.totalCalls = Len(InRangeCalls)
            /\ SumTotalCalls(rows) = report.summary.totalCalls - Cardinality(strays)
            /\ SumTotalCalls(rows) = report.summary.totalCalls <=> strays = {}
            /\ \A i \in strays : \A j \in DOMAIN rows : rows[j].campaignId # CampaignIdOf[i]

\* two in-range calls, one of agent 7 and one of agent 5, who was not fetched
C29_Witness ==
    /\ Done("agent-performance")
    /\ Len(InRangeCalls) = 2
    /\ Cardinality(Strays(AgentIdOf, usersArray)) = 1
    /\ SumTotalCalls(report.data.agentPerformance) = 1
    /\ report.summary.totalCalls = 2

\* the same for campaign 4, which was not fetched
C29_WitnessCampaign ==
    /\ Done("campaign-analytics")
    /\ Len(InRangeCalls) = 2
    /\ Cardinality(Strays(CampaignIdOf, campaignsArray)) = 1
    /\ SumTotalCalls(report.data.campaignAnalytics) = 1
    /\ report.summary.totalCalls = 2


(***************************************************************************)
(* Bounds of the agent conversion figures.                                 *)
(***************************************************************************)
\* rate is num / den * 100 rounded to two decimals, in hundredths of a percent
IsPercentOf(rate, num, den) ==
    /\ 2 * (rate * den - num * 10000) <= den
    /\ 2 * (num * 10000 - rate * den) <= den

\* C30: in every agent-performance row convertedLeads <= totalLeads <=
\* totalCalls, so conversionRate = convertedLeads / totalCalls * 100 lies
\* between 0 and 100 and is 0 when totalCalls = 0, for every set of calls and
\* leads, leads listed on several pages and agents sharing leads included.
C30_BoundedConversion ==
    Done("agent-performance") =>
        \A i \in DOMAIN report.data.agentPerformance :
            LET r == report.data.agentPerformance[i] IN
            /\ 0 <= r.convertedLeads
            /\ r.convertedLeads <= r.totalLeads
            /\ r.totalLeads <= r.totalCalls
            /\ 0 <= r.conversionRate /\ r.conversionRate <= 10000
            /\ r.totalCalls = 0 => r.conversionRate = 0
            /\ r.totalCalls > 0 => IsPercentOf(r.conversionRate, r.convertedLeads, r.totalCalls)

\* agent 7 called lead 1, listed on both pages, and lead 2, found on the
\* second page: two calls, two leads, two conversions
C30_Witness ==
    /\ Done("agent-performance")
    /\ Len(leadPages) = 2
    /\ Len(leadRequests) = 2
    /\ Len(leadsArray) = 2
    /\ \E i \in DOMAIN report.data.agentPerformance :
         LET r == report.data.agentPerformance[i]
         IN /\ r.agentId = 7
            /\ r.totalCalls = 2 /\ r.totalLeads = 2 /\ r.convertedLeads = 2
            /\ r.conversionRate = 10000

\* agents 7 and 9 both called lead 1, listed twice on the page: one call, one
\* lead, one conversion each
C30_WitnessShared ==
    /\ Done("agent-performance")
    /\ Len(leadPages) = 2
    /\ Len(leadsArray) = 1
    /\ \E i, j \in DOMAIN report.data.agentPerformance :
         LET r == report.data.agentPerformance[i]
             q == report.data.agentPerformance[j]
         IN /\ r.agentId = 7 /\ q.agentId = 9
            /\ r.totalCalls = 1 /\ r.totalLeads = 1 /\ r.convertedLeads = 1
            /\ q.totalCalls = 1 /\ q.totalLeads = 1 /\ q.convertedLeads = 1

====
